---- MODULE Spec2Model ----
(***************************************************************************)
(* A model of the pedestrian Agent of pedsim_simulator (agent.cpp):        *)
(* destination cycling, the disabled-force list and the force functions,   *)
(* the cooldown-gated probabilistic triggers, the rotation primitive and   *)
(* the two loops (rotation, translation) of the micro-trajectory maneuvers.*)
(*                                                                         *)
(* Units.  Angles are integers in units of 0.01 rad, lengths in units of   *)
(* 0.01 m, clock values in units of 0.5 s, probabilities and samples in    *)
(* units of 1/ProbScale.                                                   *)
(***************************************************************************)
EXTENDS Integers, Sequences, FiniteSets, TLC

VARIABLES
  \* ---- waypoint cycler (Agent fields)
  destinations,              \* QList<Waypoint*>
  waypointMode,              \* WaypointMode
  destinationIndex,
  previousDestinationIndex,
  nextDestinationIndex,
  currentDestination,        \* Waypoint* ("nullptr" when unset)
  calls,                     \* number of updateDestination() calls so far
  retDest,                   \* value returned by the last updateDestination()
  destOp,                    \* the last operation that wrote an index
  \* ---- force model (Agent fields)
  disabledForces,            \* QStringList of disabled force names
  forces,                    \* QList<Force*>: the pluggable forces, by name
  motion,                    \* [v, a]: velocity and acceleration
  retForce,                  \* the last force function call and what it did
  \* ---- social interaction triggers
  now,                       \* ros::Time::now()
  lastCheck,                 \* the six last...Check timestamps, by trigger
  probability,               \* the six ...Probability fields, by trigger
  neighbors,                 \* Ped::Tagent::neighbors: [id, dist, state]
  polled,                    \* the triggers the current behaviour evaluates
  talkingToId,
  talkingToAgent,            \* const Agent* (by id; NoAgent when nullptr)
  keepDistanceTo,            \* focal point
  lastTrue,                  \* by trigger: time of its last true result
  retTrig,                   \* the last trigger call and what it did
  \* ---- rotation loop of the maneuvers (locals of createMoveListState...)
  rotPc,
  rotManeuver,
  tempDirection,             \* temp_direction
  angleTarget,               \* angleTarget (field) or angle_target (local)
  rotN,                      \* poses pushed by the rotation loop
  rotRet,                    \* the last call of rotate and its result
  \* ---- translation loop of the maneuvers
  transPc,
  transManeuver,
  heading,                   \* temp_direction, in quarter turns
  tempPos,                   \* temp_pos
  targetPos,                 \* target_pos
  originalDiff,              \* original_diff
  transN,                    \* poses pushed by the translation loop
  overshot,                  \* the overshoot guard has fired
  \* ---- collaborators and interaction partners (Agent fields)
  agentState,                \* stateMachine->getCurrentState()
  waypointplanner,           \* WaypointPlanner* ("nullptr" when none)
  listeningToId,
  listeningToAgent,          \* const Agent* (by id; NoAgent when nullptr)
  servicingAgent,
  servicingWaypoint,
  p,                         \* position
  facingDirection,
  keepDistanceForceDistance,
  sceneAgents,               \* the other agents of SCENE: listeningToId by id
  retSocial,                 \* the last operation of this group and its result
  \* ---- the two random sources, in a pair of runs
  rngState,                  \* by run: state of the generator behind RNG()
  randState,                 \* by run: state of the generator behind rand()
  runAgent,                  \* by run: the fields decided at random
  reproCalls,                \* randomized decisions made so far
  \* ---- pose list of a maneuver and its replay
  movePc,
  moveManeuver,              \* the state createMoveList is called for
  genTime,                   \* ros::Time::now() when the list was generated
  bearing,                   \* polar angle of the destination, backed up
  tempTime,                  \* temp_time
  temp_pos,                  \* temp_pos of createMoveList
  travel,                    \* direction of the translation
  moves,                     \* std::vector<AgentPoseStamped> moves
  moveList,                  \* Agent::moveList
  clock,                     \* ros::Time::now(), in 0.01 s
  adopted,                   \* the sample adopted by the last replay
  retCompleted               \* what the last completedMoveList returned

destVars == <<destinations, waypointMode, destinationIndex,
              previousDestinationIndex, nextDestinationIndex,
              currentDestination, calls, retDest, destOp>>

forceVars == <<disabledForces, forces, motion, retForce>>

trigVars == <<now, lastCheck, probability, neighbors, polled, talkingToId,
              talkingToAgent, keepDistanceTo, lastTrue, retTrig>>

rotVars == <<rotPc, rotManeuver, tempDirection, angleTarget, rotN, rotRet>>

transVars == <<transPc, transManeuver, heading, tempPos, targetPos,
               originalDiff, transN, overshot>>

socialVars == <<agentState, waypointplanner, listeningToId, listeningToAgent,
                servicingAgent, servicingWaypoint, p, facingDirection,
                keepDistanceForceDistance, sceneAgents, retSocial>>

reproVars == <<rngState, randState, runAgent, reproCalls>>

moveVars == <<movePc, moveManeuver, genTime, bearing, tempTime, temp_pos,
              travel, moves, moveList, clock, adopted, retCompleted>>

vars == <<destVars, forceVars, trigVars, rotVars, transVars, socialVars,
          reproVars, moveVars>>

Range(s) == {s[i] : i \in 1..Len(s)}

(***************************************************************************)
(* Waypoint cycler                                                         *)
(***************************************************************************)
MaxDest == 3
MaxCalls == 7

Waypoints == {"w1", "w2"}
NullWaypoint == "nullptr"
WaypointModes == {"SEQUENTIAL", "RANDOM"}

SeqsUpTo(S, n) == UNION {[1..k -> S] : k \in 0..n}

\* the outcomes of the resampling loop of random mode once it has ended
\* (rand() % count is redrawn while it equals the current index)
RandomNext_NoReject(next, dest, n) ==
  IF next = dest /\ n > 1 THEN 0..(n - 1) ELSE {next}

RandomNext(next, dest, n) ==
  IF next = dest /\ n > 1 THEN {i \in 0..(n - 1) : i # dest} ELSE {next}

SequentialNext_NoWrap(next, n) == IF next + 1 >= n THEN next ELSE next + 1

SequentialNext(next, n) == (next + 1) % n

\* a pointer that is no waypoint of the simulation
Garbage == "garbage"

\* QList::operator[] at position i: outside the list the read is undefined
\* and may give any pointer
elementAt(list, i) ==
  IF i \in 0..(Len(list) - 1)
    THEN {list[i + 1]}
    ELSE Waypoints \cup {NullWaypoint, Garbage}

DestFresh ==
  /\ destinationIndex = 0
  /\ previousDestinationIndex = 0
  /\ nextDestinationIndex = 0
  /\ currentDestination = NullWaypoint
  /\ calls = 0
  /\ retDest = NullWaypoint
  /\ destOp = "none"

DestIdle ==
  /\ destinations = <<>>
  /\ waypointMode = "SEQUENTIAL"
  /\ DestFresh

updateDestination ==
  /\ calls < MaxCalls
  /\ calls' = calls + 1
  /\ IF Len(destinations) > 0
       THEN /\ previousDestinationIndex' = destinationIndex
            /\ destinationIndex' = nextDestinationIndex
            /\ currentDestination' \in
                 elementAt(destinations, nextDestinationIndex)
            /\ IF waypointMode = "RANDOM"
                 THEN nextDestinationIndex' \in
                        RandomNext(nextDestinationIndex, destinationIndex',
                                   Len(destinations))
                 ELSE nextDestinationIndex' =
                        SequentialNext(nextDestinationIndex, Len(destinations))
       ELSE UNCHANGED <<previousDestinationIndex, destinationIndex,
                        currentDestination, nextDestinationIndex>>
  /\ retDest' = currentDestination'
  /\ destOp' = "updateDestination"
  /\ UNCHANGED <<destinations, waypointMode>>
  /\ UNCHANGED <<forceVars, trigVars, rotVars, transVars,
                 socialVars, reproVars, moveVars>>

\* getPreviousDestination()
getPreviousDestination ==
  /\ retDest' \in elementAt(destinations, previousDestinationIndex)
  /\ UNCHANGED <<destinations, waypointMode, destinationIndex,
                 previousDestinationIndex, nextDestinationIndex,
                 currentDestination, calls, destOp>>
  /\ UNCHANGED <<forceVars, trigVars, rotVars, transVars,
                 socialVars, reproVars, moveVars>>

\* setWaypoints(waypointsIn)
setWaypoints ==
  /\ \E waypointsIn \in SeqsUpTo(Waypoints, MaxDest) :
       destinations' = waypointsIn
  /\ UNCHANGED <<waypointMode, destinationIndex, previousDestinationIndex,
                 nextDestinationIndex, currentDestination, calls, retDest,
                 destOp>>
  /\ UNCHANGED <<forceVars, trigVars, rotVars, transVars,
                 socialVars, reproVars, moveVars>>

\* addWaypoint(waypointIn)
addWaypoint ==
  /\ Len(destinations) < MaxDest
  /\ \E waypointIn \in Waypoints :
       destinations' = Append(destinations, waypointIn)
  /\ UNCHANGED <<waypointMode, destinationIndex, previousDestinationIndex,
                 nextDestinationIndex, currentDestination, calls, retDest,
                 destOp>>
  /\ UNCHANGED <<forceVars, trigVars, rotVars, transVars,
                 socialVars, reproVars, moveVars>>

\* QList::removeAll
removeAll(list, value) == SelectSeq(list, LAMBDA w : w # value)

\* removeWaypoint(waypointIn)
removeWaypoint ==
  /\ \E waypointIn \in Waypoints :
       destinations' = removeAll(destinations, waypointIn)
  /\ UNCHANGED <<waypointMode, destinationIndex, previousDestinationIndex,
                 nextDestinationIndex, currentDestination, calls, retDest,
                 destOp>>
  /\ UNCHANGED <<forceVars, trigVars, rotVars, transVars,
                 socialVars, reproVars, moveVars>>

(***************************************************************************)
(* Force model                                                             *)
(***************************************************************************)
MaxDisabled == 5

BaseForces == {"Desired", "Social", "Obstacle", "KeepDistance"}
ForceNames == BaseForces \cup {"Random"}
\* the names given to disableForce one at a time
DisableArgs == {"KeepDistance", "Random"}

\* Ped::Tvector: two components; valid iff every component is finite
Zero == [x |-> 0, y |-> 0, valid |-> TRUE]
Invalid == [x |-> 0, y |-> 0, valid |-> FALSE]
VecE == [x |-> 1, y |-> 0, valid |-> TRUE]
VecS == [x |-> 0, y |-> -1, valid |-> TRUE]

isValid(vec) == vec.valid

\* operator+= of Ped::Tvector: a non-finite component stays non-finite
VAdd(a, b) ==
  IF a.valid /\ b.valid
    THEN [x |-> a.x + b.x, y |-> a.y + b.y, valid |-> TRUE]
    ELSE Invalid

\* what Tagent::desiredForce() etc. of the library may return
LibForces == {Zero, VecE}
\* what Force::getForce(desired) of a pluggable force may return
PluggableOutputs == {VecE, VecS, Invalid}

Signal(name, arg, vec) == [sig |-> name, arg |-> arg, x |-> vec.x, y |-> vec.y]

NoCall == [op |-> "none", value |-> Zero, consulted |-> FALSE,
           signals |-> <<>>, outs |-> <<>>, log |-> <<>>]

BaseCall(op, on, lib, sigs) ==
  [op |-> op, value |-> IF on THEN lib ELSE Zero, consulted |-> on,
   signals |-> sigs, outs |-> <<>>, log |-> <<>>]

contains(list, name) == name \in Range(list)

desiredForceCall_Unchecked(disabled, lib) ==
  BaseCall("desiredForce", TRUE, lib,
           <<Signal("desiredForceChanged", "", lib)>>)

desiredForceCall(disabled, lib) ==
  LET on == ~contains(disabled, "Desired")
      force == IF on THEN lib ELSE Zero
  IN  BaseCall("desiredForce", on, lib,
               <<Signal("desiredForceChanged", "", force)>>)

socialForceCall(disabled, lib) ==
  LET on == ~contains(disabled, "Social")
      force == IF on THEN lib ELSE Zero
  IN  BaseCall("socialForce", on, lib,
               <<Signal("socialForceChanged", "", force)>>)

obstacleForceCall(disabled, lib) ==
  LET on == ~contains(disabled, "Obstacle")
      force == IF on THEN lib ELSE Zero
  IN  BaseCall("obstacleForce", on, lib,
               <<Signal("obstacleForceChanged", "", force)>>)

keepDistanceForceCall(disabled, lib) ==
  LET on == ~contains(disabled, "KeepDistance")
  IN  BaseCall("keepDistanceForce", on, lib, <<>>)

\* one iteration of the foreach of myForce, on the i-th pluggable force
myForceStep_NoSanity(acc, name, disabled, out) ==
  IF contains(disabled, name)
    THEN [acc EXCEPT !.signals =
            Append(@, Signal("additionalForceChanged", name, Zero))]
    ELSE [acc EXCEPT !.value = VAdd(@, out),
                     !.signals =
                       Append(@, Signal("additionalForceChanged", name, out))]

myForceStep(acc, name, disabled, out) ==
  IF contains(disabled, name)
    THEN [acc EXCEPT !.signals =
            Append(@, Signal("additionalForceChanged", name, Zero))]
    ELSE LET currentForce == IF ~isValid(out) THEN Zero ELSE out
         IN  [acc EXCEPT !.value = VAdd(@, currentForce),
                         !.log = IF ~isValid(out) THEN Append(@, name) ELSE @,
                         !.signals =
                           Append(@, Signal("additionalForceChanged", name,
                                            currentForce))]

RECURSIVE myForceLoop(_, _, _, _, _)
myForceLoop(acc, i, list, disabled, outs) ==
  IF i > Len(list)
    THEN acc
    ELSE myForceLoop(myForceStep(acc, list[i], disabled, outs[i]),
                     i + 1, list, disabled, outs)

myForceCall(list, disabled, outs) ==
  LET start == [op |-> "myForce", value |-> Zero, consulted |-> TRUE,
                signals |-> <<>>, outs |-> outs, log |-> <<>>]
      done == myForceLoop(start, 1, list, disabled, outs)
  IN  [done EXCEPT !.signals =
         Append(@, Signal("myForceChanged", "", done.value))]

RemoveAt(list, idx) ==
  [i \in 1..(Len(list) - 1) |-> IF i < idx THEN list[i] ELSE list[i + 1]]

\* QList::indexOf, 1-based here; 0 when absent
indexOf(list, name) ==
  IF contains(list, name)
    THEN CHOOSE i \in 1..Len(list) :
           list[i] = name /\ \A j \in 1..(i - 1) : list[j] # name
    ELSE 0

enableForceList(list, name) ==
  LET idx == indexOf(list, name)
  IN  IF idx >= 1 THEN RemoveAt(list, idx) ELSE list

disableAllForcesList_Three(list) ==
  list \o <<"Obstacle", "Desired", "Social">>

disableAllForcesList(list) ==
  list \o <<"Obstacle", "Desired", "Social", "KeepDistance">>

Moving == [v |-> VecE, a |-> VecS]
Stopped == [v |-> Zero, a |-> Zero]

ForceIdle ==
  /\ disabledForces = <<"KeepDistance">>
  /\ forces = <<>>
  /\ motion = Moving
  /\ retForce = NoCall

disableForce(name) ==
  /\ Len(disabledForces) < MaxDisabled
  /\ disabledForces' = Append(disabledForces, name)
  /\ retForce' = NoCall
  /\ UNCHANGED <<forces, motion>>
  /\ UNCHANGED <<destVars, trigVars, rotVars, transVars,
                 socialVars, reproVars, moveVars>>

enableForce(name) ==
  /\ disabledForces' = enableForceList(disabledForces, name)
  /\ retForce' = NoCall
  /\ UNCHANGED <<forces, motion>>
  /\ UNCHANGED <<destVars, trigVars, rotVars, transVars,
                 socialVars, reproVars, moveVars>>

enableAllForces ==
  /\ disabledForces' = <<>>
  /\ retForce' = NoCall
  /\ UNCHANGED <<forces, motion>>
  /\ UNCHANGED <<destVars, trigVars, rotVars, transVars,
                 socialVars, reproVars, moveVars>>

disableAllForces ==
  /\ Len(disabledForces) + 4 <= MaxDisabled
  /\ disabledForces' = disableAllForcesList(disabledForces)
  /\ retForce' = NoCall
  /\ UNCHANGED <<forces, motion>>
  /\ UNCHANGED <<destVars, trigVars, rotVars, transVars,
                 socialVars, reproVars, moveVars>>

resumeMovement ==
  /\ disabledForces' = <<"KeepDistance">>
  /\ retForce' = [NoCall EXCEPT !.op = "resumeMovement"]
  /\ UNCHANGED <<forces, motion>>
  /\ UNCHANGED <<destVars, trigVars, rotVars, transVars,
                 socialVars, reproVars, moveVars>>

stopMovement ==
  /\ Len(disabledForces) + 4 <= MaxDisabled
  /\ disabledForces' = disableAllForcesList(disabledForces)
  /\ motion' = Stopped
  /\ retForce' = [NoCall EXCEPT !.op = "stopMovement"]
  /\ UNCHANGED forces
  /\ UNCHANGED <<destVars, trigVars, rotVars, transVars,
                 socialVars, reproVars, moveVars>>

desiredForce ==
  /\ \E lib \in LibForces : retForce' = desiredForceCall(disabledForces, lib)
  /\ UNCHANGED <<disabledForces, forces, motion>>
  /\ UNCHANGED <<destVars, trigVars, rotVars, transVars,
                 socialVars, reproVars, moveVars>>

socialForce ==
  /\ \E lib \in LibForces : retForce' = socialForceCall(disabledForces, lib)
  /\ UNCHANGED <<disabledForces, forces, motion>>
  /\ UNCHANGED <<destVars, trigVars, rotVars, transVars,
                 socialVars, reproVars, moveVars>>

obstacleForce ==
  /\ \E lib \in LibForces : retForce' = obstacleForceCall(disabledForces, lib)
  /\ UNCHANGED <<disabledForces, forces, motion>>
  /\ UNCHANGED <<destVars, trigVars, rotVars, transVars,
                 socialVars, reproVars, moveVars>>

keepDistanceForce ==
  /\ \E lib \in LibForces :
       retForce' = keepDistanceForceCall(disabledForces, lib)
  /\ UNCHANGED <<disabledForces, forces, motion>>
  /\ UNCHANGED <<destVars, trigVars, rotVars, transVars,
                 socialVars, reproVars, moveVars>>

myForce ==
  /\ \E outs \in [1..Len(forces) -> PluggableOutputs] :
       retForce' = myForceCall(forces, disabledForces, outs)
  /\ UNCHANGED <<disabledForces, forces, motion>>
  /\ UNCHANGED <<destVars, trigVars, rotVars, transVars,
                 socialVars, reproVars, moveVars>>

(***************************************************************************)
(* Social interaction triggers                                             *)
(***************************************************************************)
MaxTime == 4
MaxPolled == 2
ProbScale == 2

Cooldown == 1               \* 0.5 s
MaxTalkingDistance == 150   \* 1.5 m
SelfId == 0
NoAgent == -1

Triggers == {"tellStory", "startGroupTalking", "startTalking",
             "startTalkingAndWalking", "startRequestingService",
             "switchRunningWalking"}

\* uniform_real_distribution<double>(0, 1): a sample of [0, 1)
Samples == 0..(ProbScale - 1)
ProbLevels == {0, 1, ProbScale}

Position == <<100, 50>>
Origin == <<0, 0>>

Nb(id, dist, state) == [id |-> id, dist |-> dist, state |-> state]

Scenes ==
  { <<Nb(1, 50, "Walking"), Nb(2, 120, "Walking"), Nb(3, 149, "Running")>>,
    <<Nb(1, 50, "Walking"), Nb(SelfId, 0, "Walking"), Nb(2, 100, "Running"),
      Nb(3, 90, "TellStory")>>,
    <<Nb(1, 140, "GroupTalking"), Nb(2, 30, "Waiting"),
      Nb(3, 150, "Walking"), Nb(SelfId, 0, "Walking")>> }

getAgentsInRange_WithSelf(list, distance) ==
  LET InRange(agent) == agent.dist < distance
  IN  SelectSeq(list, InRange)

getAgentsInRange(list, distance) ==
  LET InRange(agent) == agent.id # SelfId /\ agent.dist < distance
  IN  SelectSeq(list, InRange)

getPotentialListeners(list, distance) ==
  LET Free(agent) == agent.state = "Walking" \/ agent.state = "Running"
  IN  SelectSeq(getAgentsInRange(list, distance), Free)

HasState(list, state) == \E i \in 1..Len(list) : list[i].state = state

CooldownElapsed_Inclusive(t, last) == t - last >= Cooldown

CooldownElapsed(t, last) == t - last > Cooldown

Fires_Inclusive(roll, prob) == roll <= prob

Fires(roll, prob) == roll < prob

TrigRet(op, value, evaluated, sampled) ==
  [op |-> op, value |-> value, evaluated |-> evaluated, sampled |-> sampled,
   prevTrue |-> lastTrue[op]]

NoTrig == [op |-> "none", value |-> FALSE, evaluated |-> FALSE,
           sampled |-> FALSE, prevTrue |-> -1]

TrigIdle ==
  /\ now = 0
  /\ lastCheck = [t \in Triggers |-> 0]
  /\ probability = [t \in Triggers |-> 0]
  /\ neighbors = <<>>
  /\ polled = {}
  /\ talkingToId = NoAgent
  /\ talkingToAgent = NoAgent
  /\ keepDistanceTo = Origin
  /\ lastTrue = [t \in Triggers |-> -1]
  /\ retTrig = NoTrig

\* bookkeeping shared by the six trigger actions: the returned value
Returns(op, value, evaluated, sampled) ==
  /\ retTrig' = TrigRet(op, value, evaluated, sampled)
  /\ lastTrue' = IF value THEN [lastTrue EXCEPT ![op] = now] ELSE lastTrue
  /\ UNCHANGED <<now, probability, neighbors, polled>>
  /\ UNCHANGED <<destVars, forceVars, rotVars, transVars,
                 socialVars, reproVars, moveVars>>

tellStory ==
  /\ "tellStory" \in polled
  /\ IF CooldownElapsed(now, lastCheck["tellStory"])
       THEN /\ lastCheck' = [lastCheck EXCEPT !["tellStory"] = now]
            /\ LET potentialChatters ==
                     getAgentsInRange(neighbors, MaxTalkingDistance)
               IN  IF Len(potentialChatters) > 2
                     THEN IF HasState(potentialChatters, "TellStory")
                            THEN Returns("tellStory", FALSE, TRUE, FALSE)
                            ELSE \E roll \in Samples :
                                   Returns("tellStory",
                                           Fires(roll, probability["tellStory"]),
                                           TRUE, TRUE)
                     ELSE Returns("tellStory", FALSE, TRUE, FALSE)
       ELSE /\ UNCHANGED lastCheck
            /\ Returns("tellStory", FALSE, FALSE, FALSE)
  /\ UNCHANGED <<talkingToId, talkingToAgent, keepDistanceTo>>

startGroupTalking ==
  /\ "startGroupTalking" \in polled
  /\ IF CooldownElapsed(now, lastCheck["startGroupTalking"])
       THEN /\ lastCheck' = [lastCheck EXCEPT !["startGroupTalking"] = now]
            /\ LET potentialChatters ==
                     getPotentialListeners(neighbors, MaxTalkingDistance)
               IN  IF Len(potentialChatters) > 2
                     THEN IF HasState(potentialChatters, "GroupTalking")
                            THEN /\ Returns("startGroupTalking", FALSE, TRUE,
                                            FALSE)
                                 /\ UNCHANGED keepDistanceTo
                            ELSE \E roll \in Samples :
                                   LET hit == Fires(roll,
                                          probability["startGroupTalking"])
                                   IN /\ Returns("startGroupTalking", hit,
                                                 TRUE, TRUE)
                                      /\ keepDistanceTo' =
                                           IF hit THEN Position
                                                  ELSE keepDistanceTo
                     ELSE /\ Returns("startGroupTalking", FALSE, TRUE, FALSE)
                          /\ UNCHANGED keepDistanceTo
       ELSE /\ UNCHANGED <<lastCheck, keepDistanceTo>>
            /\ Returns("startGroupTalking", FALSE, FALSE, FALSE)
  /\ UNCHANGED <<talkingToId, talkingToAgent>>

startTalking ==
  /\ "startTalking" \in polled
  /\ IF CooldownElapsed(now, lastCheck["startTalking"])
       THEN /\ lastCheck' = [lastCheck EXCEPT !["startTalking"] = now]
            /\ LET potentialChatters ==
                     getPotentialListeners(neighbors, MaxTalkingDistance)
               IN  IF Len(potentialChatters) > 0
                     THEN \E roll \in Samples :
                            IF Fires(roll, probability["startTalking"])
                              THEN \E idx \in 1..Len(potentialChatters) :
                                     /\ talkingToId' = potentialChatters[idx].id
                                     /\ talkingToAgent' =
                                          potentialChatters[idx].id
                                     /\ Returns("startTalking", TRUE, TRUE,
                                                TRUE)
                              ELSE /\ UNCHANGED <<talkingToId, talkingToAgent>>
                                   /\ Returns("startTalking", FALSE, TRUE,
                                              TRUE)
                     ELSE /\ UNCHANGED <<talkingToId, talkingToAgent>>
                          /\ Returns("startTalking", FALSE, TRUE, FALSE)
       ELSE /\ UNCHANGED <<lastCheck, talkingToId, talkingToAgent>>
            /\ Returns("startTalking", FALSE, FALSE, FALSE)
  /\ UNCHANGED keepDistanceTo

startTalkingAndWalking ==
  /\ "startTalkingAndWalking" \in polled
  /\ IF CooldownElapsed(now, lastCheck["startTalkingAndWalking"])
       THEN /\ lastCheck' =
                 [lastCheck EXCEPT !["startTalkingAndWalking"] = now]
            /\ LET potentialChatters ==
                     getPotentialListeners(neighbors, MaxTalkingDistance)
               IN  IF Len(potentialChatters) > 0
                     THEN \E roll \in Samples :
                            IF Fires(roll,
                                     probability["startTalkingAndWalking"])
                              THEN \E idx \in 1..Len(potentialChatters) :
                                     /\ talkingToId' = potentialChatters[idx].id
                                     /\ Returns("startTalkingAndWalking",
                                                TRUE, TRUE, TRUE)
                              ELSE /\ UNCHANGED talkingToId
                                   /\ Returns("startTalkingAndWalking",
                                              FALSE, TRUE, TRUE)
                     ELSE /\ UNCHANGED talkingToId
                          /\ Returns("startTalkingAndWalking", FALSE, TRUE,
                                     FALSE)
       ELSE /\ UNCHANGED <<lastCheck, talkingToId>>
            /\ Returns("startTalkingAndWalking", FALSE, FALSE, FALSE)
  /\ UNCHANGED <<talkingToAgent, keepDistanceTo>>

startRequestingService ==
  /\ "startRequestingService" \in polled
  /\ IF CooldownElapsed(now, lastCheck["startRequestingService"])
       THEN /\ lastCheck' =
                 [lastCheck EXCEPT !["startRequestingService"] = now]
            /\ \E roll \in Samples :
                 Returns("startRequestingService",
                         Fires(roll, probability["startRequestingService"]),
                         TRUE, TRUE)
       ELSE /\ UNCHANGED lastCheck
            /\ Returns("startRequestingService", FALSE, FALSE, FALSE)
  /\ UNCHANGED <<talkingToId, talkingToAgent, keepDistanceTo>>

switchRunningWalking ==
  /\ "switchRunningWalking" \in polled
  /\ IF CooldownElapsed(now, lastCheck["switchRunningWalking"])
       THEN /\ lastCheck' =
                 [lastCheck EXCEPT !["switchRunningWalking"] = now]
            /\ \E roll \in Samples :
                 Returns("switchRunningWalking",
                         Fires(roll, probability["switchRunningWalking"]),
                         TRUE, TRUE)
       ELSE /\ UNCHANGED lastCheck
            /\ Returns("switchRunningWalking", FALSE, FALSE, FALSE)
  /\ UNCHANGED <<talkingToId, talkingToAgent, keepDistanceTo>>

\* the simulation clock advances between evaluations
Tick ==
  /\ now < MaxTime
  /\ now' = now + 1
  /\ UNCHANGED <<lastCheck, probability, neighbors, polled, talkingToId,
                 talkingToAgent, keepDistanceTo, lastTrue, retTrig>>
  /\ UNCHANGED <<destVars, forceVars, rotVars, transVars,
                 socialVars, reproVars, moveVars>>

(***************************************************************************)
(* Rotation primitive and the rotation loop of the two maneuvers           *)
(***************************************************************************)
MaxRotSteps == 320
MaxDt == 2
MaxW == 3

PI == 314                   \* M_PI
TimeStepSize == 1           \* timeStepSize = 0.02 s, taken as the unit step
AngularV == 1               \* angular_v = 0.5 rad/s: 0.01 rad per time step
AngleTol == 10              \* 0.1 rad

TwoPi == 2 * PI

Abs(n) == IF n < 0 THEN -n ELSE n

\* fmod of <cmath>: the remainder has the sign of the dividend
Fmod(n, m) == IF n >= 0 THEN n % m ELSE -((-n) % m)

RECURSIVE normalizeAngle(_)
normalizeAngle(angle) ==
  IF angle < 0
    THEN normalizeAngle(angle + TwoPi)
    ELSE IF angle > TwoPi THEN normalizeAngle(angle - TwoPi) ELSE angle

rotate_AlwaysForward(current_angle, target_angle, time_step, angular_v) ==
  normalizeAngle(current_angle) + time_step * angular_v

rotate_Reversed(current_angle, target_angle, time_step, angular_v) ==
  LET current_angle_normalized == normalizeAngle(current_angle)
      target_angle_normalized == normalizeAngle(target_angle)
      angle == time_step * angular_v
      angle_diff == normalizeAngle(target_angle_normalized
                                   - current_angle_normalized)
  IN  IF angle_diff < PI
        THEN current_angle_normalized - angle
        ELSE current_angle_normalized + angle

rotate(current_angle, target_angle, time_step, angular_v) ==
  LET current_angle_normalized == normalizeAngle(current_angle)
      target_angle_normalized == normalizeAngle(target_angle)
      angle == time_step * angular_v
      angle_diff == normalizeAngle(target_angle_normalized
                                   - current_angle_normalized)
  IN  IF angle_diff > PI
        THEN current_angle_normalized - angle
        ELSE current_angle_normalized + angle

\* the condition of the two rotation loops
NotReachedAngle(direction, target) ==
  Abs(Fmod(direction, TwoPi) - target) > AngleTol

FacingDirections == {-100, 0, 5, 100, 315, 320, 500, 620, 627, 700}
\* the angleTarget field is set from outside and may hold any angle
AngleTargets == {-100, 0, 5, 100, 314, 620, 628, 700}
\* polarAngle().toRadian(PositiveOnlyRange) of the back-up maneuver
BearingTargets == {t \in AngleTargets : 0 <= t /\ t < TwoPi}

NoRotate == [current |-> 0, target |-> 0, dt |-> 0, w |-> 0, result |-> 0]

RotIdle ==
  /\ rotPc = "idle"
  /\ rotManeuver = "none"
  /\ tempDirection = 0
  /\ angleTarget = 0
  /\ rotN = 0
  /\ rotRet = NoRotate

RotateCall(dt, w) ==
  /\ tempDirection' = rotate(tempDirection, angleTarget, dt, w)
  /\ rotRet' = [current |-> tempDirection, target |-> angleTarget,
                dt |-> dt, w |-> w, result |-> tempDirection']

\* a single call of the primitive
RotateOnce ==
  /\ rotPc = "call"
  /\ \E dt \in 1..MaxDt, w \in 1..MaxW : RotateCall(dt, w)
  /\ rotPc' = "returned"
  /\ UNCHANGED <<rotManeuver, angleTarget, rotN>>
  /\ UNCHANGED <<destVars, forceVars, trigVars, transVars,
                 socialVars, reproVars, moveVars>>

\* one iteration of "while not reached target angle"
RotationLoopStep ==
  /\ rotPc = "loop"
  /\ NotReachedAngle(tempDirection, angleTarget)
  /\ rotN < MaxRotSteps
  /\ rotN' = rotN + 1
  /\ RotateCall(TimeStepSize, AngularV)
  /\ UNCHANGED <<rotPc, rotManeuver, angleTarget>>
  /\ UNCHANGED <<destVars, forceVars, trigVars, transVars,
                 socialVars, reproVars, moveVars>>

RotationLoopExit ==
  /\ rotPc = "loop"
  /\ ~NotReachedAngle(tempDirection, angleTarget)
  /\ rotPc' = "done"
  /\ UNCHANGED <<rotManeuver, tempDirection, angleTarget, rotN, rotRet>>
  /\ UNCHANGED <<destVars, forceVars, trigVars, transVars,
                 socialVars, reproVars, moveVars>>

(***************************************************************************)
(* Translation loop of the two maneuvers                                   *)
(***************************************************************************)
TargetDistance == 100       \* 1.0 m
DistanceTol == 10           \* 0.1 m
OvershootMargin == 100      \* 1.0 m
MoveStep == 1               \* linear_v * timeStepSize = 0.5 * 0.02 m

StartPositions == {<<0, 0>>, <<-250, 40>>, <<1000, -95>>}
QuarterTurns == 0..3

\* Ped::Tvector::fromPolar for a heading of q quarter turns, where sine and
\* cosine are exact
fromPolar(q, len) ==
  CASE q % 4 = 0 -> <<len, 0>>
    [] q % 4 = 1 -> <<0, len>>
    [] q % 4 = 2 -> <<-len, 0>>
    [] OTHER     -> <<0, -len>>

VecPlus(a, b) == <<a[1] + b[1], a[2] + b[2]>>
VecMinus(a, b) == <<a[1] - b[1], a[2] - b[2]>>

\* Ped::Tvector::length, rounded down to the unit
length(vec) ==
  LET n == vec[1] * vec[1] + vec[2] * vec[2]
  IN  CHOOSE r \in 0..(Abs(vec[1]) + Abs(vec[2])) :
        r * r <= n /\ n < (r + 1) * (r + 1)

\* the direction of the target point: forward to the shelf, temp_direction
\* + M_PI when backing up
targetTurns(maneuver, q) == IF maneuver = "BackUp" THEN q + 2 ELSE q

stepTurns_Forward(maneuver, q) == q

\* the direction of one step of the loop
stepTurns(maneuver, q) == IF maneuver = "BackUp" THEN q + 2 ELSE q

TransIdle ==
  /\ transPc = "idle"
  /\ transManeuver = "none"
  /\ heading = 0
  /\ tempPos = <<0, 0>>
  /\ targetPos = <<0, 0>>
  /\ originalDiff = 0
  /\ transN = 0
  /\ overshot = FALSE

\* target_pos and original_diff, set before the loop
TranslationSetup ==
  /\ transPc = "setup"
  /\ targetPos' = VecPlus(tempPos, fromPolar(targetTurns(transManeuver, heading),
                                           TargetDistance))
  /\ originalDiff' = length(VecMinus(targetPos', tempPos))
  /\ transPc' = "loop"
  /\ UNCHANGED <<transManeuver, heading, tempPos, transN, overshot>>
  /\ UNCHANGED <<destVars, forceVars, trigVars, rotVars,
                 socialVars, reproVars, moveVars>>

\* one iteration of the translation loop, the overshoot guard included
TranslationLoopStep ==
  /\ transPc = "loop"
  /\ length(VecMinus(tempPos, targetPos)) > DistanceTol
  /\ IF length(VecMinus(tempPos, targetPos)) > originalDiff + OvershootMargin
       THEN /\ overshot' = TRUE
            /\ transPc' = "done"
            /\ UNCHANGED <<tempPos, transN>>
       ELSE /\ transN' = transN + 1
            /\ tempPos' = VecPlus(tempPos,
                               fromPolar(stepTurns(transManeuver, heading),
                                         MoveStep))
            /\ UNCHANGED <<transPc, overshot>>
  /\ UNCHANGED <<transManeuver, heading, targetPos, originalDiff>>
  /\ UNCHANGED <<destVars, forceVars, trigVars, rotVars,
                 socialVars, reproVars, moveVars>>

TranslationLoopExit ==
  /\ transPc = "loop"
  /\ ~(length(VecMinus(tempPos, targetPos)) > DistanceTol)
  /\ transPc' = "done"
  /\ UNCHANGED <<transManeuver, heading, tempPos, targetPos, originalDiff,
                 transN, overshot>>
  /\ UNCHANGED <<destVars, forceVars, trigVars, rotVars,
                 socialVars, reproVars, moveVars>>

(***************************************************************************)
(* Collaborators and interaction partners                                  *)
(*                                                                         *)
(* The agents of this part stand on one east-west line and move along it,  *)
(* so that every bearing taken is one of the four axis directions.         *)
(***************************************************************************)
MaxTravel == 2

MaxServicingRadius == 1000              \* 10.0 m
KeepDistanceForceDistanceDefault == 50  \* set outside agent.cpp

ServiceWaypoint == "service_destination"

\* the states of AgentStateMachine::AgentState this part reads
AgentStates == {"None", "Waiting", "Walking", "Running", "Talking",
                "TellStory", "GroupTalking", "Listening",
                "TalkingAndWalking", "ListeningAndWalking",
                "RequestingService"}

NoPlanner == [attached |-> FALSE, destination |-> NullWaypoint]
Planner(dest) == [attached |-> TRUE, destination |-> dest]

\* an agent of the scene as its neighbours read it
Ag(id, pos, state, talkingTo, focal, vel) ==
  [id |-> id, dist |-> length(VecMinus(Position, pos)), state |-> state,
   talkingToId |-> talkingTo, pos |-> pos, keepDistanceTo |-> focal,
   v |-> vel]

\* the distances of the neighbours, as seen from position pos
Seen(list, pos) ==
  [i \in 1..Len(list) |->
     [list[i] EXCEPT !.dist = length(VecMinus(pos, list[i].pos))]]

\* SCENE.getAgent(id): the agent of that id, nullptr when there is none
getAgent(scene, id) == IF id \in DOMAIN scene THEN id ELSE NoAgent

\* the neighbour a pointer to agent id refers to
Deref(list, id) == list[CHOOSE i \in 1..Len(list) : list[i].id = id]

\* Ped::Tvector::polarAngle().toRadian(PositiveOnlyRange) on the axes
polarAngle(vec) ==
  CASE vec[2] = 0 /\ vec[1] >= 0 -> 0
    [] vec[1] = 0 /\ vec[2] > 0  -> PI \div 2
    [] vec[2] = 0 /\ vec[1] < 0  -> PI
    [] vec[1] = 0 /\ vec[2] < 0  -> PI + PI \div 2

AxisBearings == {0, PI \div 2, PI, PI + PI \div 2}

Tuple(vec) == <<vec.x, vec.y>>

NoSocial == [op |-> "none", value |-> FALSE, waypoint |-> NullWaypoint,
             used |-> {}, completed |-> TRUE]

SocialRet(op, value, waypoint, used, completed) ==
  [op |-> op, value |-> value, waypoint |-> waypoint, used |-> used,
   completed |-> completed]

SocialIdle ==
  /\ agentState = "None"
  /\ waypointplanner = NoPlanner
  /\ listeningToId = NoAgent
  /\ listeningToAgent = NoAgent
  /\ servicingAgent = NoAgent
  /\ servicingWaypoint = NullWaypoint
  /\ p = Position
  /\ facingDirection = 0
  /\ keepDistanceForceDistance = KeepDistanceForceDistanceDefault
  /\ sceneAgents = <<>>
  /\ retSocial = NoSocial

\* what the attached planner may answer
PlannerAnswers == BOOLEAN
PlannerWaypoints == {NullWaypoint} \cup Waypoints

getCurrentWaypoint ==
  /\ IF ~waypointplanner.attached
       THEN retSocial' = SocialRet("getCurrentWaypoint", FALSE, NullWaypoint,
                                   {}, TRUE)
       ELSE \E wp \in PlannerWaypoints :
              retSocial' = SocialRet("getCurrentWaypoint", FALSE, wp,
                                     {"waypointplanner"}, TRUE)
  /\ UNCHANGED <<agentState, waypointplanner, listeningToId, listeningToAgent,
                 servicingAgent, servicingWaypoint, p, facingDirection,
                 keepDistanceForceDistance, sceneAgents>>
  /\ UNCHANGED <<destVars, forceVars, trigVars, rotVars, transVars,
                 reproVars, moveVars>>

hasCompletedDestination ==
  /\ IF ~waypointplanner.attached
       THEN retSocial' = SocialRet("hasCompletedDestination", FALSE,
                                   NullWaypoint, {}, TRUE)
       ELSE \E answer \in PlannerAnswers :
              retSocial' = SocialRet("hasCompletedDestination", answer,
                                     NullWaypoint, {"waypointplanner"}, TRUE)
  /\ UNCHANGED <<agentState, waypointplanner, listeningToId, listeningToAgent,
                 servicingAgent, servicingWaypoint, p, facingDirection,
                 keepDistanceForceDistance, sceneAgents>>
  /\ UNCHANGED <<destVars, forceVars, trigVars, rotVars, transVars,
                 reproVars, moveVars>>

needNewDestination ==
  /\ IF ~waypointplanner.attached
       THEN retSocial' = SocialRet("needNewDestination",
                                   Len(destinations) > 0, NullWaypoint, {},
                                   TRUE)
       ELSE \E answer \in PlannerAnswers :
              retSocial' = SocialRet("needNewDestination", answer,
                                     NullWaypoint, {"waypointplanner"}, TRUE)
  /\ UNCHANGED <<agentState, waypointplanner, listeningToId, listeningToAgent,
                 servicingAgent, servicingWaypoint, p, facingDirection,
                 keepDistanceForceDistance, sceneAgents>>
  /\ UNCHANGED <<destVars, forceVars, trigVars, rotVars, transVars,
                 reproVars, moveVars>>

\* index of the first agent of the list in that state; 0 when there is none
firstInState(list, state) ==
  IF HasState(list, state)
    THEN CHOOSE i \in 1..Len(list) :
           list[i].state = state /\ \A j \in 1..(i - 1) : list[j].state # state
    ELSE 0

\* getWaypointPlanner()->setDestination(...) is called on whatever
\* waypointplanner holds: with no planner attached the call is made through
\* a null pointer, and either ends the process or returns
someoneIsRequestingService ==
  LET agents == getAgentsInRange(neighbors, MaxServicingRadius)
      idx == firstInState(agents, "RequestingService")
  IN  /\ IF idx = 0
           THEN /\ retSocial' = SocialRet("someoneIsRequestingService", FALSE,
                                          NullWaypoint, {}, TRUE)
                /\ UNCHANGED <<servicingAgent, servicingWaypoint,
                               waypointplanner, currentDestination>>
           ELSE /\ servicingAgent' = agents[idx].id
                /\ servicingWaypoint' = ServiceWaypoint
                /\ \E returns \in IF waypointplanner.attached
                                    THEN {TRUE} ELSE BOOLEAN :
                     /\ waypointplanner' =
                          IF waypointplanner.attached
                            THEN Planner(ServiceWaypoint)
                            ELSE waypointplanner
                     /\ currentDestination' =
                          IF returns THEN ServiceWaypoint
                                     ELSE currentDestination
                     /\ retSocial' =
                          SocialRet("someoneIsRequestingService", returns,
                                    NullWaypoint, {"waypointplanner"},
                                    returns)
      /\ UNCHANGED <<agentState, listeningToId, listeningToAgent, p,
                     facingDirection, keepDistanceForceDistance, sceneAgents>>
      /\ UNCHANGED <<destinations, waypointMode, destinationIndex,
                     previousDestinationIndex, nextDestinationIndex, calls,
                     retDest, destOp>>
      /\ UNCHANGED <<forceVars, trigVars, rotVars, transVars, reproVars,
                     moveVars>>

\* the outcomes of updateDirection in state st at position pos with velocity
\* vel: the new heading, the collaborators dereferenced, and whether the call
\* returned.  talkingToAgent->getPosition() is called unchecked: through a
\* null pointer it either ends the process or reads some position.
updateDirectionOutcomes(st, pos, vel) ==
  LET Out(facing, used, completed) ==
        [facing |-> facing, used |-> used, completed |-> completed]
      byVelocity ==
        {Out(IF length(Tuple(vel)) > 0 THEN polarAngle(Tuple(vel))
                                       ELSE facingDirection, {}, TRUE)}
  IN  CASE st \in {"Listening", "GroupTalking"} ->
             {Out(polarAngle(VecMinus(keepDistanceTo, pos)), {}, TRUE)}
        [] st = "Talking" ->
             IF talkingToAgent # NoAgent
               THEN {Out(polarAngle(VecMinus(
                           Deref(neighbors, talkingToAgent).pos, pos)),
                         {"talkingToAgent"}, TRUE)}
               ELSE {Out(facingDirection, {"talkingToAgent"}, FALSE)}
                    \cup {Out(a, {"talkingToAgent"}, TRUE) : a \in AxisBearings}
        [] OTHER -> byVelocity

updateDirection ==
  /\ \E out \in updateDirectionOutcomes(agentState, p, motion.v) :
       /\ facingDirection' = out.facing
       /\ retSocial' = SocialRet("updateDirection", FALSE, NullWaypoint,
                                 out.used, out.completed)
  /\ UNCHANGED <<agentState, waypointplanner, listeningToId, listeningToAgent,
                 servicingAgent, servicingWaypoint, p,
                 keepDistanceForceDistance, sceneAgents>>
  /\ UNCHANGED <<destVars, forceVars, trigVars, rotVars, transVars,
                 reproVars, moveVars>>

\* neighbor_v rotated by a quarter turn and normalized
rotatedUnit(vel) == <<-vel.y, vel.x>>

\* move(h) of an ordinary agent (neither robot nor elder) outside the two
\* maneuver states: the ListeningAndWalking placement next to
\* listeningToAgent, else the integration of the library, then
\* updateDirection.  listeningToAgent->getVelocity() is called unchecked.
move ==
  /\ agentState \notin {"ReachedShelf", "BackUp"}
  /\ IF agentState = "ListeningAndWalking"
       THEN IF listeningToAgent # NoAgent
              THEN LET partner == Deref(neighbors, listeningToAgent)
                       scaled == <<KeepDistanceForceDistanceDefault
                                     * rotatedUnit(partner.v)[1],
                                   KeepDistanceForceDistanceDefault
                                     * rotatedUnit(partner.v)[2]>>
                   IN  /\ p' = VecPlus(partner.pos, scaled)
                       /\ motion' = [motion EXCEPT !.v = partner.v]
                       /\ \E out \in updateDirectionOutcomes(agentState, p',
                                                             partner.v) :
                            /\ facingDirection' = out.facing
                            /\ retSocial' =
                                 SocialRet("move", FALSE, NullWaypoint,
                                           {"listeningToAgent"} \cup out.used,
                                           out.completed)
              ELSE \/ /\ retSocial' = SocialRet("move", FALSE, NullWaypoint,
                                                {"listeningToAgent"}, FALSE)
                      /\ UNCHANGED <<p, motion, facingDirection>>
                   \/ \E vel \in {Zero, VecE}, at \in {Position, Origin} :
                        /\ p' = at
                        /\ motion' = [motion EXCEPT !.v = vel]
                        /\ \E out \in updateDirectionOutcomes(agentState, p',
                                                              vel) :
                             /\ facingDirection' = out.facing
                             /\ retSocial' =
                                  SocialRet("move", FALSE, NullWaypoint,
                                            {"listeningToAgent"} \cup out.used,
                                            out.completed)
       ELSE /\ Abs(p[1] - Position[1]) < MaxTravel
            /\ p' = VecPlus(p, Tuple(motion.v))
            /\ UNCHANGED motion
            /\ \E out \in updateDirectionOutcomes(agentState, p', motion.v) :
                 /\ facingDirection' = out.facing
                 /\ retSocial' = SocialRet("move", FALSE, NullWaypoint,
                                           out.used, out.completed)
  /\ neighbors' = Seen(neighbors, p')
  /\ UNCHANGED <<agentState, waypointplanner, listeningToId, listeningToAgent,
                 servicingAgent, servicingWaypoint, keepDistanceForceDistance,
                 sceneAgents>>
  /\ UNCHANGED <<disabledForces, forces, retForce>>
  /\ UNCHANGED <<now, lastCheck, probability, polled, talkingToId,
                 talkingToAgent, keepDistanceTo, lastTrue, retTrig>>
  /\ UNCHANGED <<destVars, rotVars, transVars, reproVars, moveVars>>

\* what someoneTalkingToMe recognizes in one neighbour: "a" telling a story
\* or Talking to this agent, "b" GroupTalking, "c" TalkingAndWalking to this
\* agent, "none" otherwise
Category(neighbor) ==
  IF \/ neighbor.state = "TellStory"
     \/ neighbor.state = "Talking" /\ neighbor.talkingToId = SelfId
    THEN "a"
    ELSE IF neighbor.state = "GroupTalking"
           THEN "b"
           ELSE IF /\ neighbor.state = "TalkingAndWalking"
                   /\ neighbor.talkingToId = SelfId
                  THEN "c"
                  ELSE "none"

\* index of the neighbour at which the for loop returns; 0 when it runs out
firstMatch(list) ==
  IF \E i \in 1..Len(list) : Category(list[i]) # "none"
    THEN CHOOSE i \in 1..Len(list) :
           /\ Category(list[i]) # "none"
           /\ \A j \in 1..(i - 1) : Category(list[j]) = "none"
    ELSE 0

someoneTalkingToMe ==
  LET neighbor_list == getAgentsInRange(neighbors, MaxTalkingDistance)
      idx == firstMatch(neighbor_list)
  IN  /\ IF idx = 0
           THEN /\ retSocial' = SocialRet("someoneTalkingToMe", FALSE,
                                          NullWaypoint, {}, TRUE)
                /\ UNCHANGED <<listeningToId, listeningToAgent, keepDistanceTo,
                               keepDistanceForceDistance>>
           ELSE LET neighbor == neighbor_list[idx]
                IN  /\ listeningToId' = neighbor.id
                    /\ listeningToAgent' = getAgent(sceneAgents, neighbor.id)
                    /\ keepDistanceTo' =
                         CASE Category(neighbor) = "a" ->
                                Deref(neighbors, listeningToAgent').pos
                           [] Category(neighbor) = "b" ->
                                neighbor.keepDistanceTo
                           [] OTHER -> keepDistanceTo
                    /\ keepDistanceForceDistance' =
                         IF Category(neighbor) = "c"
                           THEN keepDistanceForceDistance
                           ELSE KeepDistanceForceDistanceDefault
                    /\ retSocial' = SocialRet("someoneTalkingToMe", TRUE,
                                              NullWaypoint, {}, TRUE)
      /\ retTrig' = NoTrig
      /\ UNCHANGED <<agentState, waypointplanner, servicingAgent,
                     servicingWaypoint, p, facingDirection, sceneAgents>>
      /\ UNCHANGED <<now, lastCheck, probability, neighbors, polled,
                     talkingToId, talkingToAgent, lastTrue>>
      /\ UNCHANGED <<destVars, forceVars, rotVars, transVars, reproVars,
                     moveVars>>

(***************************************************************************)
(* Group spacing                                                           *)
(***************************************************************************)
MaxSceneAgents == 8

DistanceBetweenListeningAgents == 150   \* 1.5 m
MinKeepDistanceForceDistance == 30      \* 0.3 m

\* the for loop over SCENE.getAgents(), this agent among them: the number of
\* agents whose listeningToId is check_for_id
RECURSIVE countOthers(_, _, _)
countOthers(scene, ids, check_for_id) ==
  IF ids = {}
    THEN 0
    ELSE LET id == CHOOSE i \in ids : TRUE
         IN  (IF scene[id] = check_for_id THEN 1 ELSE 0)
               + countOthers(scene, ids \ {id}, check_for_id)

countListening(scene, own, check_for_id) ==
  countOthers(scene, DOMAIN scene, check_for_id)
    + (IF own = check_for_id THEN 1 ELSE 0)

keepDistanceFor_NoFloor(count) ==
  (count * DistanceBetweenListeningAgents * 100) \div TwoPi

\* count * 1.5 / (2 * M_PI), floored at 0.3 m (in 0.01 m, rounded down)
keepDistanceFor(count) ==
  LET distance == (count * DistanceBetweenListeningAgents * 100) \div TwoPi
  IN  IF distance < MinKeepDistanceForceDistance
        THEN MinKeepDistanceForceDistance
        ELSE distance

adjustKeepDistanceForceDistance ==
  LET check_for_id == IF agentState = "GroupTalking" THEN SelfId
                                                     ELSE listeningToId
      count == countListening(sceneAgents, listeningToId, check_for_id)
  IN  /\ keepDistanceForceDistance' = keepDistanceFor(count)
      /\ retSocial' = SocialRet("adjustKeepDistanceForceDistance", FALSE,
                                NullWaypoint, {}, TRUE)
      /\ UNCHANGED <<agentState, waypointplanner, listeningToId,
                     listeningToAgent, servicingAgent, servicingWaypoint, p,
                     facingDirection, sceneAgents>>
      /\ UNCHANGED <<destVars, forceVars, trigVars, rotVars, transVars,
                     reproVars, moveVars>>

(***************************************************************************)
(* The two random sources, in a pair of runs                               *)
(*                                                                         *)
(* The probability rolls draw from RNG(), the seedable generator shared by *)
(* the simulator; the partner index and the next destination index draw    *)
(* from rand() of the C library, a second generator with a state of its    *)
(* own, which the seed of RNG() does not set.  Both are modelled as        *)
(* counters: a generator's outputs are a function of its state alone.      *)
(***************************************************************************)
MaxReproCalls == 3
RngModulus == 4
RandModulus == 4

Runs == {1, 2}

\* one draw: the value drawn and the state left behind
Draw(state, modulus) == [value |-> state, state |-> (state + 1) % modulus]

\* the source of the partner index and of the next destination index
IndexSource(rng, rnd) == [from |-> "rand", state |-> rnd]

\* the destinations and the potential listeners of both runs
ReproDestinations == 3
ReproListeners == <<1, 2, 3>>

\* the resampling loop of updateDestination in random mode, drawing from
\* generator state st
RECURSIVE resample(_, _, _, _)
resample(next, dest, count, st) ==
  IF next = dest /\ count > 1
    THEN LET d == Draw(st, RandModulus)
         IN  resample(d.value % count, dest, count, d.state)
    ELSE [next |-> next, state |-> st]

\* updateDestination of one run (random mode, non-empty list)
reproUpdateDestination(agent, rng, rnd) ==
  LET src == IndexSource(rng, rnd)
      done == resample(agent.nextDestinationIndex, agent.nextDestinationIndex,
                       ReproDestinations, src.state)
  IN  [agent |-> [agent EXCEPT !.destinationIndex = agent.nextDestinationIndex,
                               !.nextDestinationIndex = done.next],
       rng |-> IF src.from = "RNG" THEN done.state ELSE rng,
       rnd |-> IF src.from = "rand" THEN done.state ELSE rnd]

\* the decision of startTalking / startTalkingAndWalking of one run, the
\* cooldown having elapsed: the roll, then the index of the partner
reproStartTalking(agent, rng, rnd, prob) ==
  LET roll == Draw(rng, RngModulus)
      src == IndexSource(roll.state, rnd)
      pick == Draw(src.state, RandModulus)
      idx == pick.value % Len(ReproListeners)
  IN  IF Fires(roll.value % ProbScale, prob)
        THEN [agent |-> [agent EXCEPT !.talkingToId = ReproListeners[idx + 1]],
              rng |-> IF src.from = "RNG" THEN pick.state ELSE roll.state,
              rnd |-> IF src.from = "rand" THEN pick.state ELSE rnd]
        ELSE [agent |-> agent, rng |-> roll.state, rnd |-> rnd]

ReproFresh == [destinationIndex |-> 0, nextDestinationIndex |-> 0,
               talkingToId |-> NoAgent]

ReproIdle ==
  /\ rngState = [r \in Runs |-> 0]
  /\ randState = [r \in Runs |-> 0]
  /\ runAgent = [r \in Runs |-> ReproFresh]
  /\ reproCalls = 0

\* both runs make the same call
BothRuns(step(_)) ==
  /\ reproCalls < MaxReproCalls
  /\ reproCalls' = reproCalls + 1
  /\ runAgent' = [r \in Runs |-> step(r).agent]
  /\ rngState' = [r \in Runs |-> step(r).rng]
  /\ randState' = [r \in Runs |-> step(r).rnd]
  /\ UNCHANGED <<destVars, forceVars, trigVars, rotVars, transVars,
                 socialVars, moveVars>>

ReproUpdateDestination ==
  LET step(r) == reproUpdateDestination(runAgent[r], rngState[r], randState[r])
  IN  BothRuns(step)

ReproStartTalking ==
  \E prob \in ProbLevels :
    LET step(r) == reproStartTalking(runAgent[r], rngState[r], randState[r],
                                     prob)
    IN  BothRuns(step)

(***************************************************************************)
(* Pose list of a maneuver and its replay                                  *)
(*                                                                         *)
(* Timestamps and the clock are in units of 0.01 s.  A position of a       *)
(* maneuver is kept as the point it started from and the distance          *)
(* travelled from there along the direction of travel, which is exact for  *)
(* every heading: positions of one maneuver lie on one line.               *)
(***************************************************************************)
MaxClock == 330

LeadIn == 100                       \* ros::Duration(1.0)
StepDuration == 2 * TimeStepSize    \* ros::Duration(timeStepSize)
Infinity == -1                      \* INFINITY, below every time difference

\* the point at distance along from point from, in direction dir
Track(from, dir, along) ==
  [from |-> from, dir |-> IF along = 0 THEN 0 ELSE dir, along |-> along]

\* (a - b).length() for two points of one line of travel
trackDistance(a, b) == Abs(a.along - b.along)

\* phase records which loop pushed the sample
AgentPoseStamped(timestamp, pos, theta, phase) ==
  [timestamp |-> timestamp, pos |-> pos, theta |-> theta, phase |-> phase]

advanceTime_Stalled(temp_time) == temp_time

\* temp_time += ros::Duration(timeStepSize)
advanceTime(temp_time) == temp_time + StepDuration

\* the angle the rotation loop of the maneuver turns to
rotationTarget == IF moveManeuver = "BackUp" THEN bearing ELSE angleTarget

\* temp_pos + fromPolar(direction of travel, 1.0)
target_pos == Track(temp_pos.from, travel, TargetDistance)

later_OrEqual(time, timestamp) == time >= timestamp

\* ros::Time::now() > last_move.timestamp
later(time, timestamp) == time > timestamp

TranslationOver_AtOnce == TRUE

closer_OrEqual(time_diff, min_time_diff) ==
  min_time_diff = Infinity \/ time_diff <= min_time_diff

\* time_diff < min_time_diff
closer(time_diff, min_time_diff) ==
  min_time_diff = Infinity \/ time_diff < min_time_diff

RECURSIVE nearestPose(_, _, _, _, _)
\* the for loop of moveByMoveList from sample i on: the index new_pose is
\* left at (0 when it was never assigned)
nearestPose(list, i, time, min_time_diff, best) ==
  IF i > Len(list)
    THEN best
    ELSE LET time_diff == Abs(time - list[i].timestamp)
         IN  IF closer(time_diff, min_time_diff)
               THEN nearestPose(list, i + 1, time, time_diff, i)
               ELSE nearestPose(list, i + 1, time, min_time_diff, best)

NoneAdopted == [index |-> 0, at |-> 0]

NoCompleted == [called |-> FALSE, value |-> FALSE]

MoveIdle ==
  /\ movePc = "idle"
  /\ moveManeuver = "None"
  /\ genTime = 0
  /\ bearing = 0
  /\ tempTime = 0
  /\ temp_pos = Track(Position, 0, 0)
  /\ travel = 0
  /\ moves = <<>>
  /\ moveList = <<>>
  /\ clock = 0
  /\ adopted = NoneAdopted
  /\ retCompleted = NoCompleted

\* entering ReachedShelf or BackUp: createMoveList(state) up to the first
\* loop of the maneuver
createMoveList ==
  /\ movePc = "enter"
  /\ agentState' = moveManeuver
  /\ genTime' = clock
  /\ moves' = <<>>
  /\ tempDirection' = facingDirection
  /\ temp_pos' = Track(p.from, 0, p.along)
  /\ tempTime' = clock + LeadIn
  /\ IF moveManeuver = "BackUp"
       THEN travel' = tempDirection' + PI /\ movePc' = "translation"
       ELSE travel' = travel /\ movePc' = "rotation"
  /\ UNCHANGED <<moveManeuver, bearing, moveList, clock, adopted,
                 retCompleted>>
  /\ UNCHANGED <<rotPc, rotManeuver, angleTarget, rotN, rotRet>>
  /\ UNCHANGED <<waypointplanner, listeningToId, listeningToAgent,
                 servicingAgent, servicingWaypoint, p, facingDirection,
                 keepDistanceForceDistance, sceneAgents, retSocial>>
  /\ UNCHANGED <<destVars, forceVars, trigVars, transVars, reproVars>>

\* one iteration of the rotation loop
MoveListRotationStep ==
  /\ movePc = "rotation"
  /\ NotReachedAngle(tempDirection, rotationTarget)
  /\ moves' = Append(moves, AgentPoseStamped(tempTime, temp_pos, tempDirection,
                                             "rotation"))
  /\ tempDirection' = rotate(tempDirection, rotationTarget, TimeStepSize,
                             AngularV)
  /\ tempTime' = advanceTime(tempTime)
  /\ UNCHANGED <<movePc, moveManeuver, genTime, bearing, temp_pos, travel,
                 moveList, clock, adopted,
                 retCompleted>>
  /\ UNCHANGED <<rotPc, rotManeuver, angleTarget, rotN, rotRet>>
  /\ UNCHANGED <<destVars, forceVars, trigVars, transVars, socialVars,
                 reproVars>>

\* the rotation loop ends: the translation of the reached-shelf maneuver
\* starts along the heading reached, the back-up maneuver returns its list
MoveListRotationExit ==
  /\ movePc = "rotation"
  /\ ~NotReachedAngle(tempDirection, rotationTarget)
  /\ IF moveManeuver = "ReachedShelf"
       THEN /\ travel' = tempDirection
            /\ movePc' = "translation"
            /\ UNCHANGED moveList
       ELSE /\ moveList' = moves
            /\ movePc' = "replay"
            /\ UNCHANGED travel
  /\ UNCHANGED <<moveManeuver, genTime, bearing, tempTime, temp_pos, moves,
                 clock, adopted,
                 retCompleted>>
  /\ UNCHANGED <<rotVars>>
  /\ UNCHANGED <<destVars, forceVars, trigVars, transVars, socialVars,
                 reproVars>>

\* the translation loop has ended: within the tolerance of the target, or
\* stopped by the overshoot guard
TranslationOver ==
  LET original_diff == trackDistance(target_pos,
                                     Track(temp_pos.from, travel, 0))
  IN  \/ ~(trackDistance(temp_pos, target_pos) > DistanceTol)
      \/ trackDistance(temp_pos, target_pos) > original_diff + OvershootMargin

\* one iteration of the translation loop
MoveListTranslationStep ==
  /\ movePc = "translation"
  /\ ~TranslationOver
  /\ moves' = Append(moves, AgentPoseStamped(tempTime, temp_pos, tempDirection,
                                             "translation"))
  /\ temp_pos' = Track(temp_pos.from, travel, temp_pos.along + MoveStep)
  /\ tempTime' = advanceTime(tempTime)
  /\ UNCHANGED <<movePc, moveManeuver, genTime, bearing, travel, moveList,
                 clock, adopted,
                 retCompleted>>
  /\ UNCHANGED <<rotVars>>
  /\ UNCHANGED <<destVars, forceVars, trigVars, transVars, socialVars,
                 reproVars>>

\* the translation loop ends: the reached-shelf maneuver returns its list,
\* the rotation of the back-up maneuver starts
MoveListTranslationExit ==
  /\ movePc = "translation"
  /\ TranslationOver
  /\ IF moveManeuver = "ReachedShelf"
       THEN /\ moveList' = moves
            /\ movePc' = "replay"
       ELSE /\ movePc' = "rotation"
            /\ UNCHANGED moveList
  /\ UNCHANGED <<moveManeuver, genTime, bearing, tempTime, temp_pos, travel,
                 moves, clock, adopted,
                 retCompleted>>
  /\ UNCHANGED <<rotVars>>
  /\ UNCHANGED <<destVars, forceVars, trigVars, transVars, socialVars,
                 reproVars>>

\* move(h) in ReachedShelf / BackUp at time current_time: the replay
moveByMoveList ==
  /\ movePc = "replay"
  /\ \E current_time \in {clock, clock + 1} :
       /\ current_time <= MaxClock
       /\ clock' = current_time
       /\ LET index == nearestPose(moveList, 1, current_time, Infinity, 0)
          IN  /\ index > 0
              /\ adopted' = [index |-> index, at |-> current_time]
              /\ p' = moveList[index].pos
              /\ facingDirection' = moveList[index].theta
  /\ retCompleted' = NoCompleted
  /\ UNCHANGED <<movePc, moveManeuver, genTime, bearing, tempTime, temp_pos,
                 travel, moves, moveList>>
  /\ UNCHANGED <<agentState, waypointplanner, listeningToId, listeningToAgent,
                 servicingAgent, servicingWaypoint, keepDistanceForceDistance,
                 sceneAgents, retSocial>>
  /\ UNCHANGED <<destVars, forceVars, trigVars, rotVars, transVars,
                 reproVars>>

\* completedMoveList() at the time of the last reading of the clock; the
\* value is held until the next replay
completedMoveList ==
  /\ movePc = "replay"
  /\ Len(moveList) > 0
  /\ LET last_move == moveList[Len(moveList)]
     IN  retCompleted' = [called |-> TRUE,
                          value |-> later(clock, last_move.timestamp)]
  /\ UNCHANGED <<movePc, moveManeuver, genTime, bearing, tempTime, temp_pos,
                 travel, moves, moveList, clock, adopted>>
  /\ UNCHANGED <<destVars, forceVars, trigVars, rotVars, transVars,
                 socialVars, reproVars>>

\* initialPosX, initialPosY
InitialPosition == Position

\* reset(); activateState(StateNone) leaves the agent in state None
reset ==
  /\ p' = InitialPosition
  /\ destinationIndex' = 0
  /\ agentState' = "None"
  /\ destOp' = "reset"
  /\ UNCHANGED <<destinations, waypointMode, previousDestinationIndex,
                 nextDestinationIndex, currentDestination, calls, retDest>>
  /\ UNCHANGED <<waypointplanner, listeningToId, listeningToAgent,
                 servicingAgent, servicingWaypoint, facingDirection,
                 keepDistanceForceDistance, sceneAgents, retSocial>>
  /\ UNCHANGED <<forceVars, trigVars, rotVars, transVars, reproVars,
                 moveVars>>

(***************************************************************************)
(* Specifications                                                          *)
(***************************************************************************)
\* destination cycling over a fixed list, from a freshly constructed agent
InitDest ==
  /\ destinations \in SeqsUpTo(Waypoints, MaxDest)
  /\ waypointMode \in WaypointModes
  /\ DestFresh
  /\ ForceIdle /\ TrigIdle /\ RotIdle /\ TransIdle
  /\ SocialIdle /\ ReproIdle /\ MoveIdle

NextDest == updateDestination

SpecDest == InitDest /\ [][NextDest]_vars

\* the disabled-force list and the force functions, from construction
InitForce ==
  /\ disabledForces = <<"KeepDistance">>
  /\ forces = <<"Random", "GroupGaze">>
  /\ motion = Moving
  /\ retForce = NoCall
  /\ DestIdle /\ TrigIdle /\ RotIdle /\ TransIdle
  /\ SocialIdle /\ ReproIdle /\ MoveIdle

NextForce ==
  \/ \E name \in DisableArgs : disableForce(name)
  \/ \E name \in ForceNames : enableForce(name)
  \/ enableAllForces
  \/ disableAllForces
  \/ resumeMovement
  \/ stopMovement
  \/ desiredForce
  \/ socialForce
  \/ obstacleForce
  \/ keepDistanceForce
  \/ myForce

SpecForce == InitForce /\ [][NextForce]_vars

\* the probabilistic triggers under an advancing clock, from construction.
\* The six probabilities are set to one common level, the behaviour polls
\* MaxPolled of the triggers, and both ros::Time::now() reads of one call
\* return the same instant (the clock advances between calls).
InitTrig ==
  /\ now = 0
  /\ lastCheck = [t \in Triggers |-> 0]
  /\ \E level \in ProbLevels : probability = [t \in Triggers |-> level]
  /\ neighbors \in Scenes
  /\ polled \in {s \in SUBSET Triggers : Cardinality(s) = MaxPolled}
  /\ talkingToId = NoAgent
  /\ talkingToAgent = NoAgent
  /\ keepDistanceTo = Origin
  /\ lastTrue = [t \in Triggers |-> -1]
  /\ retTrig = NoTrig
  /\ DestIdle /\ ForceIdle /\ RotIdle /\ TransIdle
  /\ SocialIdle /\ ReproIdle /\ MoveIdle

NextTrig ==
  \/ tellStory
  \/ startGroupTalking
  \/ startTalking
  \/ startTalkingAndWalking
  \/ startRequestingService
  \/ switchRunningWalking
  \/ Tick

SpecTrig == InitTrig /\ [][NextTrig]_vars

\* the waypoint list is edited, the agent reset and the destination advanced
\* in any order; the agent has walked away from its initial position
InitWaypoints ==
  /\ destinations \in SeqsUpTo(Waypoints, MaxDest)
  /\ waypointMode \in WaypointModes
  /\ DestFresh
  /\ agentState = "Walking"
  /\ waypointplanner = NoPlanner
  /\ listeningToId = NoAgent
  /\ listeningToAgent = NoAgent
  /\ servicingAgent = NoAgent
  /\ servicingWaypoint = NullWaypoint
  /\ p = <<0, 0>>
  /\ facingDirection = 0
  /\ keepDistanceForceDistance = KeepDistanceForceDistanceDefault
  /\ sceneAgents = <<>>
  /\ retSocial = NoSocial
  /\ ForceIdle /\ TrigIdle /\ RotIdle /\ TransIdle
  /\ ReproIdle /\ MoveIdle

NextWaypoints ==
  \/ updateDestination
  \/ getPreviousDestination
  \/ setWaypoints
  \/ addWaypoint
  \/ removeWaypoint
  \/ reset

SpecWaypoints == InitWaypoints /\ [][NextWaypoints]_vars

\* the rotation primitive, called once or by the loop of a maneuver
InitRot ==
  /\ rotPc \in {"call", "loop"}
  /\ rotManeuver \in {"ReachedShelf", "BackUp"}
  /\ tempDirection \in FacingDirections
  /\ angleTarget \in
       IF rotManeuver = "BackUp" THEN BearingTargets ELSE AngleTargets
  /\ rotN = 0
  /\ rotRet = NoRotate
  /\ DestIdle /\ ForceIdle /\ TrigIdle /\ TransIdle
  /\ SocialIdle /\ ReproIdle /\ MoveIdle

NextRot ==
  \/ RotateOnce
  \/ RotationLoopStep
  \/ RotationLoopExit

SpecRot == InitRot /\ [][NextRot]_vars

\* the translation loop of a maneuver
InitTrans ==
  /\ transPc = "setup"
  /\ transManeuver \in {"ReachedShelf", "BackUp"}
  /\ heading \in QuarterTurns
  /\ tempPos \in StartPositions
  /\ targetPos = <<0, 0>>
  /\ originalDiff = 0
  /\ transN = 0
  /\ overshot = FALSE
  /\ DestIdle /\ ForceIdle /\ TrigIdle /\ RotIdle
  /\ SocialIdle /\ ReproIdle /\ MoveIdle

NextTrans ==
  \/ TranslationSetup
  \/ TranslationLoopStep
  \/ TranslationLoopExit

SpecTrans == InitTrans /\ [][NextTrans]_vars

\* the operations that consult the planner or an interaction partner, with
\* and without the collaborator
CollabScenes ==
  { <<Ag(1, <<150, 50>>, "Walking", NoAgent, Origin, VecS)>>,
    <<Ag(1, <<40, 50>>, "TalkingAndWalking", SelfId, Origin, Zero),
      Ag(2, <<900, 50>>, "RequestingService", NoAgent, Origin, Zero)>> }

InitCollab ==
  /\ agentState \in {"Walking", "Listening", "Talking", "ListeningAndWalking"}
  /\ waypointplanner \in {NoPlanner, Planner(NullWaypoint)}
  /\ neighbors \in CollabScenes
  /\ sceneAgents = [id \in {neighbors[i].id : i \in 1..Len(neighbors)}
                                \ {SelfId}
                     |-> NoAgent]
  /\ \E partner \in {NoAgent, 1} :
       /\ talkingToId = IF agentState = "Talking" THEN partner ELSE NoAgent
       /\ talkingToAgent = talkingToId
       /\ listeningToId =
            IF agentState \in {"Listening", "ListeningAndWalking"}
              THEN partner ELSE NoAgent
       /\ listeningToAgent = listeningToId
  /\ keepDistanceTo = <<0, Position[2]>>
  /\ destinations \in {<<>>, <<"w1">>}
  /\ currentDestination \in {NullWaypoint} \cup Range(destinations)
  /\ waypointMode = "SEQUENTIAL"
  /\ destinationIndex = 0
  /\ previousDestinationIndex = 0
  /\ nextDestinationIndex = 0
  /\ calls = 0
  /\ retDest = NullWaypoint
  /\ destOp = "none"
  /\ servicingAgent = NoAgent
  /\ servicingWaypoint = NullWaypoint
  /\ p = Position
  /\ facingDirection = 0
  /\ keepDistanceForceDistance = KeepDistanceForceDistanceDefault
  /\ retSocial = NoSocial
  /\ now = 0
  /\ lastCheck = [t \in Triggers |-> 0]
  /\ probability = [t \in Triggers |-> 0]
  /\ polled = {}
  /\ lastTrue = [t \in Triggers |-> -1]
  /\ retTrig = NoTrig
  /\ ForceIdle /\ RotIdle /\ TransIdle /\ ReproIdle /\ MoveIdle

NextCollab ==
  \/ getCurrentWaypoint
  \/ hasCompletedDestination
  \/ needNewDestination
  \/ someoneIsRequestingService
  \/ updateDirection
  \/ move

SpecCollab == InitCollab /\ [][NextCollab]_vars

\* the triggers that pick a partner or start a group talk, and the listening
\* resolution, in scenes whose neighbours hold interaction states
Line(x) == <<x, Position[2]>>

SocialScenes ==
  { <<Ag(1, Line(150), "GroupTalking", NoAgent, Line(160), Zero),
      Ag(2, Line(60), "TellStory", NoAgent, Origin, Zero)>>,
    <<Ag(2, Line(60), "TellStory", NoAgent, Origin, Zero),
      Ag(1, Line(150), "GroupTalking", NoAgent, Line(160), Zero)>>,
    <<Ag(3, Line(120), "Walking", NoAgent, Origin, VecE),
      Ag(1, Line(90), "TalkingAndWalking", SelfId, Origin, VecE),
      Ag(2, Line(110), "Talking", SelfId, Origin, Zero)>>,
    <<Ag(1, Line(130), "Walking", NoAgent, Origin, VecE),
      Ag(4, Line(50), "GroupTalking", NoAgent, Line(40), Zero),
      Ag(2, Line(180), "Running", NoAgent, Origin, VecE),
      Ag(SelfId, Line(100), "Walking", NoAgent, Origin, VecE),
      Ag(3, Line(249), "Walking", NoAgent, Origin, VecE),
      Ag(5, Line(250), "Walking", NoAgent, Origin, VecE)>>,
    <<Ag(1, Line(130), "Walking", NoAgent, Origin, VecE),
      Ag(2, Line(180), "Running", NoAgent, Origin, VecE),
      Ag(3, Line(20), "Walking", NoAgent, Origin, VecE),
      Ag(4, Line(300), "GroupTalking", NoAgent, Line(310), Zero)>>,
    <<Ag(1, Line(130), "Talking", 2, Origin, Zero),
      Ag(2, Line(140), "Listening", NoAgent, Line(130), Zero),
      Ag(SelfId, Line(100), "Walking", NoAgent, Origin, VecE)>> }

PartnerTriggers == {"startGroupTalking", "startTalking",
                    "startTalkingAndWalking"}

InitSocial ==
  /\ now = 0
  /\ lastCheck = [t \in Triggers |-> 0]
  /\ probability = [t \in Triggers |-> 1]
  /\ neighbors \in SocialScenes
  /\ polled = PartnerTriggers
  /\ talkingToId = NoAgent
  /\ talkingToAgent = NoAgent
  /\ keepDistanceTo = Origin
  /\ lastTrue = [t \in Triggers |-> -1]
  /\ retTrig = NoTrig
  /\ agentState = "Walking"
  /\ waypointplanner = NoPlanner
  /\ listeningToId = NoAgent
  /\ listeningToAgent = NoAgent
  /\ servicingAgent = NoAgent
  /\ servicingWaypoint = NullWaypoint
  /\ p = Position
  /\ facingDirection = 0
  /\ keepDistanceForceDistance = KeepDistanceForceDistanceDefault
  /\ sceneAgents = [id \in {neighbors[i].id : i \in 1..Len(neighbors)}
                                \ {SelfId}
                     |-> NoAgent]
  /\ retSocial = NoSocial
  /\ DestIdle /\ ForceIdle /\ RotIdle /\ TransIdle /\ ReproIdle /\ MoveIdle

NextSocial ==
  \/ startGroupTalking
  \/ startTalking
  \/ startTalkingAndWalking
  \/ someoneTalkingToMe
  \/ Tick

SpecSocial == InitSocial /\ [][NextSocial]_vars

\* two runs from the same agent state whose shared generator is given the
\* same seed; the state of the C library generator is not set by that seed
InitRepro ==
  /\ \E seed \in 0..(RngModulus - 1) : rngState = [r \in Runs |-> seed]
  /\ randState \in [Runs -> 0..(RandModulus - 1)]
  /\ runAgent = [r \in Runs |-> ReproFresh]
  /\ reproCalls = 0
  /\ DestIdle /\ ForceIdle /\ TrigIdle /\ RotIdle /\ TransIdle
  /\ SocialIdle /\ MoveIdle

NextRepro ==
  \/ ReproUpdateDestination
  \/ ReproStartTalking

SpecRepro == InitRepro /\ [][NextRepro]_vars

\* group spacing in scenes of up to MaxSceneAgents other agents, each
\* listening to nobody, to this agent or to agent Talker
Talker == 9

InitSpacing ==
  /\ agentState \in {"GroupTalking", "Listening"}
  /\ listeningToId \in IF agentState = "GroupTalking" THEN {NoAgent}
                                                      ELSE {NoAgent, Talker}
  /\ listeningToAgent = listeningToId
  /\ \E n \in 0..MaxSceneAgents :
       sceneAgents \in [1..n -> {NoAgent, SelfId, Talker}]
  /\ keepDistanceForceDistance = KeepDistanceForceDistanceDefault
  /\ waypointplanner = NoPlanner
  /\ servicingAgent = NoAgent
  /\ servicingWaypoint = NullWaypoint
  /\ p = Position
  /\ facingDirection = 0
  /\ retSocial = NoSocial
  /\ DestIdle /\ ForceIdle /\ TrigIdle /\ RotIdle /\ TransIdle
  /\ ReproIdle /\ MoveIdle

NextSpacing == adjustKeepDistanceForceDistance

SpecSpacing == InitSpacing /\ [][NextSpacing]_vars

\* a maneuver state is entered, its pose list built, and the list replayed
\* under the advancing clock.  The angles are such that the rotation ends.
TurnCases ==
  { <<0, 5>>, <<0, 30>>, <<620, 5>> }

InitMoveList ==
  /\ movePc = "enter"
  /\ moveManeuver \in {"ReachedShelf", "BackUp"}
  /\ \E turn \in TurnCases :
       /\ facingDirection = turn[1]
       /\ IF moveManeuver = "ReachedShelf"
            THEN angleTarget = turn[2] /\ bearing = 0
            ELSE angleTarget = 0 /\ bearing = turn[2]
  /\ p = Track(Position, 0, 0)
  /\ clock \in {0, 1}
  /\ genTime = 0
  /\ tempTime = 0
  /\ temp_pos = Track(Position, 0, 0)
  /\ travel = 0
  /\ moves = <<>>
  /\ moveList = <<>>
  /\ adopted = NoneAdopted
  /\ retCompleted = NoCompleted
  /\ agentState = "Walking"
  /\ waypointplanner = NoPlanner
  /\ listeningToId = NoAgent
  /\ listeningToAgent = NoAgent
  /\ servicingAgent = NoAgent
  /\ servicingWaypoint = NullWaypoint
  /\ keepDistanceForceDistance = KeepDistanceForceDistanceDefault
  /\ sceneAgents = <<>>
  /\ retSocial = NoSocial
  /\ rotPc = "idle"
  /\ rotManeuver = "none"
  /\ tempDirection = 0
  /\ rotN = 0
  /\ rotRet = NoRotate
  /\ DestIdle /\ ForceIdle /\ TrigIdle /\ TransIdle /\ ReproIdle

NextMoveList ==
  \/ createMoveList
  \/ MoveListRotationStep
  \/ MoveListRotationExit
  \/ MoveListTranslationStep
  \/ MoveListTranslationExit
  \/ moveByMoveList
  \/ completedMoveList

SpecMoveList == InitMoveList /\ [][NextMoveList]_vars

(***************************************************************************)
(* Properties                                                              *)
(***************************************************************************)
\* C1: in sequential mode, on a fresh agent with a fixed list of N >= 1
\* destinations, the k-th updateDestination sets destinationIndex to
\* (k-1) mod N and returns destinations[(k-1) mod N].
C1_SequentialCycle ==
  (waypointMode = "SEQUENTIAL" /\ Len(destinations) >= 1 /\ calls >= 1) =>
     /\ destinationIndex = (calls - 1) % Len(destinations)
     /\ retDest = destinations[((calls - 1) % Len(destinations)) + 1]
     /\ currentDestination = retDest

C1_Witness ==
  /\ waypointMode = "SEQUENTIAL"
  /\ Len(destinations) = 3
  /\ calls = 5
  /\ destinationIndex = 1

\* C2: in random mode with N > 1 destinations, after every updateDestination
\* the stored next index differs from the current index, and two consecutive
\* calls never select the same index.
C2_RandomNeverRepeats ==
  (waypointMode = "RANDOM" /\ Len(destinations) > 1) =>
     /\ calls >= 1 => nextDestinationIndex # destinationIndex
     /\ calls >= 2 => destinationIndex # previousDestinationIndex

C2_Witness ==
  /\ waypointMode = "RANDOM"
  /\ Len(destinations) = 3
  /\ calls >= 2
  /\ destinationIndex = 2

\* C3: re-enabling a force is idempotent: after any calls of disableForce,
\* disableAllForces, stopMovement, resumeMovement and enableForce, one
\* enableForce(n) leaves n not disabled, and a second one changes nothing.
C3_EnableForceIdempotent ==
  [][\A n \in ForceNames :
       enableForce(n) =>
         /\ ~contains(disabledForces', n)
         /\ enableForceList(disabledForces', n) = disabledForces']_vars

\* C4 (as stated): each of the four base force functions, when its name is
\* disabled, returns the zero vector without consulting the underlying
\* computation and reports the zero value to observers.
BaseForceFunctions ==
  { <<"desiredForce", "Desired">>, <<"socialForce", "Social">>,
    <<"obstacleForce", "Obstacle">>, <<"keepDistanceForce", "KeepDistance">> }

ReportsZero(call) ==
  /\ Len(call.signals) >= 1
  /\ \A i \in 1..Len(call.signals) :
       call.signals[i].x = 0 /\ call.signals[i].y = 0

C4_Original ==
  \A f \in BaseForceFunctions :
    (retForce.op = f[1] /\ contains(disabledForces, f[2])) =>
       /\ retForce.value = Zero
       /\ ~retForce.consulted
       /\ ReportsZero(retForce)

\* C4 (amended): each of the four base force functions, when its name is
\* disabled, returns the zero vector without consulting the underlying
\* computation; desiredForce, socialForce and obstacleForce report the zero
\* value to observers, keepDistanceForce reports nothing.
C4_DisabledBaseForceIsZero ==
  \A f \in BaseForceFunctions :
    (retForce.op = f[1] /\ contains(disabledForces, f[2])) =>
       /\ retForce.value = Zero
       /\ ~retForce.consulted
       /\ IF f[1] = "keepDistanceForce"
            THEN retForce.signals = <<>>
            ELSE ReportsZero(retForce) /\ Len(retForce.signals) = 1

C4_Witness ==
  /\ retForce.op = "desiredForce"
  /\ contains(disabledForces, "Desired")
  /\ ~contains(disabledForces, "Random")

\* C5: myForce returns the sum of the outputs of exactly the pluggable forces
\* that are enabled and return a valid vector; a disabled force or one that
\* returns an invalid vector contributes zero, is reported by name, and
\* never makes the sum invalid.
RECURSIVE SumOver(_, _)
SumOver(indices, outs) ==
  IF indices = {}
    THEN Zero
    ELSE LET i == CHOOSE j \in indices : TRUE
             rest == SumOver(indices \ {i}, outs)
         IN  [x |-> outs[i].x + rest.x, y |-> outs[i].y + rest.y,
              valid |-> TRUE]

Contributing(call) ==
  {i \in 1..Len(forces) :
     ~contains(disabledForces, forces[i]) /\ call.outs[i].valid}

C5_MyForceSum ==
  retForce.op = "myForce" =>
    /\ retForce.value = SumOver(Contributing(retForce), retForce.outs)
    /\ retForce.value.valid
    /\ \A i \in (1..Len(forces)) \ Contributing(retForce) :
         /\ \E k \in 1..Len(retForce.signals) :
              retForce.signals[k] =
                Signal("additionalForceChanged", forces[i], Zero)
         /\ ~contains(disabledForces, forces[i]) =>
              contains(retForce.log, forces[i])

C5_Witness ==
  /\ retForce.op = "myForce"
  /\ contains(disabledForces, "Random")
  /\ retForce.outs[2] = Invalid
  /\ contains(retForce.log, "GroupGaze")

\* C6: for every probabilistic trigger, with its probability at 1.0 it
\* returns true on every evaluation that happens after the cooldown has
\* elapsed and whose precondition holds (so on the first one); with its
\* probability at 0.0 it never returns true, whatever the samples.
InTalkingRange ==
  {i \in 1..Len(neighbors) :
     neighbors[i].id # SelfId /\ neighbors[i].dist < MaxTalkingDistance}

FreeToListen ==
  {i \in InTalkingRange : neighbors[i].state \in {"Walking", "Running"}}

Precondition(t) ==
  CASE t = "tellStory" ->
         /\ Cardinality(InTalkingRange) > 2
         /\ \A i \in InTalkingRange : neighbors[i].state # "TellStory"
    [] t = "startGroupTalking" ->
         /\ Cardinality(FreeToListen) > 2
         /\ \A i \in InTalkingRange : neighbors[i].state # "GroupTalking"
    [] t \in {"startTalking", "startTalkingAndWalking"} ->
         FreeToListen # {}
    [] OTHER -> TRUE

C6_ProbabilityExtremes ==
  \A t \in Triggers :
    retTrig.op = t =>
      /\ (probability[t] = ProbScale /\ retTrig.evaluated /\ Precondition(t))
           => retTrig.value
      /\ probability[t] = 0 => ~retTrig.value

C6_Witness ==
  /\ retTrig.op = "startGroupTalking"
  /\ probability["startGroupTalking"] = ProbScale
  /\ retTrig.evaluated
  /\ retTrig.value
  /\ keepDistanceTo = Position

\* C7: each trigger is gated by its own cooldown: a call made no more than
\* 0.5 s after that trigger's previous evaluation (or after construction)
\* returns false without drawing a sample and without changing any agent
\* field; two true results of the same trigger are more than 0.5 s apart; and
\* evaluating one trigger never resets another trigger's cooldown.
TriggerCall(t) == now' = now /\ retTrig'.op = t

C7_OwnCooldown ==
  [][\A t \in Triggers :
       TriggerCall(t) =>
         /\ now - lastCheck[t] <= Cooldown =>
              /\ ~retTrig'.value
              /\ ~retTrig'.sampled
              /\ UNCHANGED <<lastCheck, probability, talkingToId,
                             talkingToAgent, keepDistanceTo>>
         /\ (retTrig'.value /\ lastTrue[t] >= 0) =>
              now - lastTrue[t] > Cooldown
         /\ \A u \in Triggers \ {t} : lastCheck'[u] = lastCheck[u]]_vars

C7_Witness ==
  /\ retTrig.op = "switchRunningWalking"
  /\ retTrig.value
  /\ retTrig.prevTrue >= 0
  /\ lastCheck["startTalking"] > 0
  /\ lastCheck["startTalking"] < now

\* C8 (as stated): rotate(a, a, dt, w) equals normalizeAngle(a).
Aligned(call) == call.dt > 0 /\ call.w > 0 /\ call.current = call.target

C8_Original ==
  Aligned(rotRet) => rotRet.result = normalizeAngle(rotRet.current)

\* C8 (amended): rotate(a, a, dt, w) equals normalizeAngle(a) + dt * w: when
\* already aligned the primitive still takes one full step, in the positive
\* direction.
C8_AlignedStepsForward ==
  Aligned(rotRet) =>
    rotRet.result = normalizeAngle(rotRet.current) + rotRet.dt * rotRet.w

C8_Witness ==
  /\ rotPc = "returned"
  /\ Aligned(rotRet)
  /\ rotRet.current = 700
  /\ rotRet.dt * rotRet.w = 6

\* C9: from any heading and for any target angle, the rotation loop reaches a
\* heading within tolerance of the target after at most ceil(pi / (dt * w))
\* steps, also when the target is outside [0, 2*pi) or near the boundary.
RotStepBound ==
  (PI + TimeStepSize * AngularV - 1) \div (TimeStepSize * AngularV)

CircularDistance(a, b) ==
  LET d == normalizeAngle(a - b) % TwoPi
  IN  IF d > PI THEN TwoPi - d ELSE d

C9_RotationTerminates ==
  /\ rotN <= RotStepBound
  /\ (rotPc = "loop" /\ rotN = RotStepBound) =>
       ~NotReachedAngle(tempDirection, angleTarget)
  /\ rotPc = "done" =>
       CircularDistance(tempDirection, angleTarget) <= AngleTol

\* the same for targets inside [0, 2*pi) only
C9_InRangeOnly ==
  (0 <= angleTarget /\ angleTarget < TwoPi) => C9_RotationTerminates

\* C10: the translation loop of both maneuvers ends after a bounded number of
\* samples, either with the remaining distance at most 0.1 m or by the
\* overshoot guard, and with no sample when the target is already within
\* 0.1 m.
Remaining == length(VecMinus(tempPos, targetPos))

MaxTranslationSamples == (TargetDistance - DistanceTol) \div MoveStep

C10_TranslationTerminates ==
  /\ transN <= MaxTranslationSamples
  /\ transPc = "done" =>
       /\ Remaining <= DistanceTol \/ overshot
       /\ overshot => Remaining > originalDiff + OvershootMargin
       /\ originalDiff <= DistanceTol => transN = 0
  /\ (transPc = "loop" /\ transN = MaxTranslationSamples) =>
       Remaining <= DistanceTol

C10_Witness ==
  /\ transPc = "done"
  /\ transManeuver = "BackUp"
  /\ heading = 1
  /\ transN = MaxTranslationSamples
  /\ tempPos = <<-250, -50>>

\* the collaborator that operation op needs and that is absent in this state
Absent(op) ==
  CASE op \in {"getCurrentWaypoint", "hasCompletedDestination",
               "needNewDestination", "someoneIsRequestingService"} ->
         IF waypointplanner.attached THEN {} ELSE {"waypointplanner"}
    [] op = "move" ->
         IF agentState = "ListeningAndWalking" /\ listeningToAgent = NoAgent
           THEN {"listeningToAgent"} ELSE {}
    [] op = "updateDirection" ->
         IF agentState = "Talking" /\ talkingToAgent = NoAgent
           THEN {"talkingToAgent"} ELSE {}
    [] OTHER -> {}

\* the operation taken by this step degrades to a safe default
DegradesSafely ==
  Absent(retSocial'.op) # {} =>
    /\ retSocial'.completed
    /\ retSocial'.used \cap Absent(retSocial'.op) = {}
    /\ currentDestination' = currentDestination
    /\ agentState' = agentState

\* C11: with no planner attached, or with talkingToAgent / listeningToAgent
\* unset, each of getCurrentWaypoint, hasCompletedDestination,
\* needNewDestination, someoneIsRequestingService, move (in
\* ListeningAndWalking) and updateDirection (in Talking) completes without
\* using the absent collaborator and without changing destination or state.
C11_SafeDefaults == [][DegradesSafely]_vars

\* the three planner queries do test for the planner (not a claim of its own:
\* the part of C11 the code keeps)
PlannerQueriesDegrade ==
  [][retSocial'.op \in {"getCurrentWaypoint", "hasCompletedDestination",
                        "needNewDestination"} => DegradesSafely]_vars

\* the neighbours within the talking radius, and the best category among them
Audible == getAgentsInRange(neighbors, MaxTalkingDistance)

Rank(category) ==
  CASE category = "a" -> 1 [] category = "b" -> 2 [] category = "c" -> 3
    [] OTHER -> 4

BestRank == LET ranks == {Rank(Category(Audible[i])) : i \in 1..Len(Audible)}
            IN  CHOOSE r \in ranks : \A q \in ranks : r <= q

\* C12: when several agents within the talking radius match different
\* categories at the same time, someoneTalkingToMe adopts a neighbour of the
\* highest-priority matching category (a) > (b) > (c), whatever the order in
\* which the neighbours are enumerated.
C12_CategoryPriority ==
  (retSocial.op = "someoneTalkingToMe" /\ retSocial.value) =>
    Rank(Category(Deref(neighbors, listeningToId))) = BestRank

\* the code adopts the first neighbour of the list that matches any category
\* (not a claim of its own: what someoneTalkingToMe does instead)
FirstNeighbourWins ==
  (retSocial.op = "someoneTalkingToMe" /\ retSocial.value) =>
    listeningToId = Audible[firstMatch(Audible)].id

\* C13: talkingToId is -1 or the id of an agent resolvable in the scene, and
\* talkingToAgent then refers to that same agent; likewise listeningToId is
\* -1 or listeningToAgent refers to the agent with that id.
C13_IdsResolve ==
  /\ talkingToId = NoAgent
       \/ (getAgent(sceneAgents, talkingToId) # NoAgent
            /\ talkingToAgent = talkingToId)
  /\ listeningToId = NoAgent
       \/ (getAgent(sceneAgents, listeningToId) # NoAgent
            /\ listeningToAgent = listeningToId)

\* the ids alone do resolve (not a claim of its own: the part of C13 the code
\* keeps)
IdsInScene ==
  /\ talkingToId = NoAgent \/ getAgent(sceneAgents, talkingToId) # NoAgent
  /\ listeningToId = NoAgent
       \/ (getAgent(sceneAgents, listeningToId) # NoAgent
            /\ listeningToAgent = listeningToId)

\* C14: startGroupTalking returns true only if more than 2 agents within the
\* talking radius are in Walking or Running and no agent within the talking
\* radius is already in GroupTalking.
C14_GroupTalkOnlyIfNoneTalking ==
  (retTrig.op = "startGroupTalking" /\ retTrig.value) =>
    /\ Len(getPotentialListeners(neighbors, MaxTalkingDistance)) > 2
    /\ ~HasState(Audible, "GroupTalking")

\* C15: when startTalking or startTalkingAndWalking returns true, talkingToId
\* is the id of an agent other than the caller that was within the talking
\* radius and in Walking or Running at the time of the call; when either
\* returns false, talkingToId and talkingToAgent are unchanged.
C15_PartnerIsFreeListener ==
  [][\A t \in {"startTalking", "startTalkingAndWalking"} :
       TriggerCall(t) =>
         IF retTrig'.value
           THEN \E i \in FreeToListen :
                  /\ neighbors[i].id = talkingToId'
                  /\ neighbors[i].id # SelfId
           ELSE UNCHANGED <<talkingToId, talkingToAgent>>]_vars

C15_Witness ==
  /\ retTrig.op = "startTalkingAndWalking"
  /\ retTrig.value
  /\ talkingToId = 2
  /\ talkingToAgent = 1
  /\ \E i \in 1..Len(neighbors) : neighbors[i].id = SelfId

\* C16: two runs that start from the same state and give the shared source
\* (RNG) the same seed make identical choices in every randomized decision,
\* including the partner picked by startTalking / startTalkingAndWalking and
\* the next index picked by updateDestination in random mode.
C16_Reproducible == runAgent[1] = runAgent[2]

\* the rolls do come from the shared source, and runs that also agree on the
\* state of the C library generator agree on every decision (not claims of
\* their own: the part of C16 the code keeps)
SharedSourceAgrees == rngState[1] = rngState[2]

SameStateSameChoices ==
  [][(randState[1] = randState[2] /\ runAgent[1] = runAgent[2]) =>
       (randState'[1] = randState'[2] /\ runAgent'[1] = runAgent'[2])]_vars

\* the agents of the scene, this agent among them, that listen to the id
\* adjustKeepDistanceForceDistance checks for
SameTarget ==
  LET target == IF agentState = "GroupTalking" THEN SelfId ELSE listeningToId
  IN  Cardinality({id \in DOMAIN sceneAgents : sceneAgents[id] = target})
        + (IF listeningToId = target THEN 1 ELSE 0)

Max(a, b) == IF a >= b THEN a ELSE b

\* C17: adjustKeepDistanceForceDistance sets the keep-distance radius to
\* max(0.3, count * 1.5 / (2*pi)), count being the number of agents of the
\* scene whose listeningToId is this agent's id if it is GroupTalking and
\* this agent's listeningToId otherwise; the radius is never below 0.3, is
\* non-decreasing in count, is the 0.3 floor for count <= 1 and about 1.91
\* for count = 8.
C17_GroupSpacing ==
  /\ retSocial.op = "adjustKeepDistanceForceDistance" =>
       /\ keepDistanceForceDistance =
            Max(30, (SameTarget * 150 * 100) \div TwoPi)
       /\ keepDistanceForceDistance >= 30
  /\ \A count \in 0..(MaxSceneAgents + 1) :
       /\ keepDistanceFor(count) >= 30
       /\ keepDistanceFor(count) <= keepDistanceFor(count + 1)
  /\ keepDistanceFor(0) = 30
  /\ keepDistanceFor(1) = 30
  /\ keepDistanceFor(8) \in 190..192

C17_Witness ==
  /\ retSocial.op = "adjustKeepDistanceForceDistance"
  /\ agentState = "GroupTalking"
  /\ SameTarget = 8
  /\ keepDistanceForceDistance = 191

\* the distance in time of sample i of the stored list from time t
TimeDistance(i, t) == Abs(t - moveList[i].timestamp)

\* C18: a replay by moveByMoveList sets position and heading to those of a
\* stored sample whose timestamp is at the minimum absolute distance from the
\* current time over the whole list, the earliest such sample on a tie;
\* before the first timestamp it is the first sample, and the index of the
\* adopted sample never decreases as the clock advances.
C18_NearestSample ==
  [][(movePc = "replay" /\ movePc' = "replay" /\ ~retCompleted'.called) =>
       LET i == adopted'.index
           t == adopted'.at
       IN  /\ t = clock'
           /\ i \in 1..Len(moveList)
           /\ p' = moveList[i].pos
           /\ facingDirection' = moveList[i].theta
           /\ \A j \in 1..Len(moveList) :
                TimeDistance(i, t) <= TimeDistance(j, t)
           /\ \A j \in 1..(i - 1) : TimeDistance(j, t) > TimeDistance(i, t)
           /\ t <= moveList[1].timestamp => i = 1
           /\ adopted.index <= i]_vars

\* a replay at a time half way between two samples, past the first
C18_Witness ==
  /\ movePc = "replay"
  /\ adopted.index > 1
  /\ adopted.index < Len(moveList)
  /\ TimeDistance(adopted.index, adopted.at) =
       TimeDistance(adopted.index + 1, adopted.at)
  /\ p = moveList[adopted.index].pos

\* C19: the last sample of the reached-shelf list lies within 0.1 m of the
\* point 1.0 m ahead of the end pose of the rotation, and the last sample of
\* the back-up list has a heading within 0.1 rad of the bearing of the
\* destination, so that a replay to exhaustion ends at that pose.
C19_ListEndsWithinTolerance ==
  (movePc = "replay" /\ Len(moveList) > 0) =>
    LET last == moveList[Len(moveList)]
    IN  IF moveManeuver = "ReachedShelf"
          THEN trackDistance(last.pos,
                             Track(last.pos.from, travel, TargetDistance))
                 <= DistanceTol
          ELSE CircularDistance(last.theta, bearing) <= AngleTol

\* what the code does guarantee: every sample was pushed while its loop was
\* still short of the tolerance, the last one included
LastSampleShortOfTolerance ==
  (movePc = "replay" /\ moveManeuver = "ReachedShelf") =>
    /\ Len(moveList) > 0
    /\ trackDistance(moveList[Len(moveList)].pos,
                     Track(Position, travel, TargetDistance))
         = DistanceTol + MoveStep

\* the phase of the first loop of the maneuver
FirstPhase == IF moveManeuver = "BackUp" THEN "translation" ELSE "rotation"

\* C20: in every pose list produced for ReachedShelf or BackUp the first
\* timestamp is the generation time plus 1.0 s, consecutive timestamps
\* differ by exactly one time step, and the samples of the first phase all
\* precede those of the second (rotation then translation for ReachedShelf,
\* translation then rotation for BackUp).
C20_Timestamps ==
  movePc = "replay" =>
    /\ Len(moveList) > 0 => moveList[1].timestamp = genTime + LeadIn
    /\ \A i \in 1..(Len(moveList) - 1) :
         /\ moveList[i + 1].timestamp = moveList[i].timestamp + StepDuration
         /\ moveList[i + 1].timestamp > moveList[i].timestamp
         /\ moveList[i + 1].phase = FirstPhase =>
              moveList[i].phase = FirstPhase

\* a back-up list with both phases, generated after the clock has started
C20_Witness ==
  /\ movePc = "replay"
  /\ moveManeuver = "BackUp"
  /\ genTime > 0
  /\ moveList[1].phase = "translation"
  /\ moveList[Len(moveList)].phase = "rotation"
  /\ moveList[Len(moveList)].timestamp =
       genTime + LeadIn + (Len(moveList) - 1) * StepDuration

\* the direction of the step a call of rotate took
StepSign(call) ==
  IF call.result > normalizeAngle(call.current) THEN 1 ELSE -1

\* a call of rotate made before the heading is within tolerance of the target
BeforeTolerance(call) ==
  call.dt > 0 /\ CircularDistance(call.current, call.target) > AngleTol

\* C21: every rotate step moves along the shorter arc: when the circular
\* distance from the heading to the target exceeds one step dt * w, the
\* result is strictly closer to the target in circular distance; and in
\* repeated application toward a fixed target the sign of the step does not
\* change before the tolerance is reached, also when the heading crosses the
\* 0 / 2*pi boundary.
C21_ShorterArc ==
  [][rotRet' # rotRet =>
       /\ CircularDistance(rotRet'.current, rotRet'.target)
            > rotRet'.dt * rotRet'.w =>
            CircularDistance(rotRet'.result, rotRet'.target)
              < CircularDistance(rotRet'.current, rotRet'.target)
       /\ (BeforeTolerance(rotRet) /\ BeforeTolerance(rotRet')) =>
            StepSign(rotRet') = StepSign(rotRet)]_vars

\* the loop has stepped down through 0 and is still short of the tolerance
C21_Witness ==
  /\ rotPc = "loop"
  /\ rotN > 5
  /\ rotRet.current = 0
  /\ rotRet.result < 0
  /\ StepSign(rotRet) = -1
  /\ CircularDistance(rotRet.result, rotRet.target) > AngleTol

\* the last sample of the stored list
LastMove == moveList[Len(moveList)]

\* C22: completedMoveList returns true exactly when the current time is
\* strictly later than the timestamp of the last sample of the move list;
\* from then on it returns true at every later time, and every later
\* moveByMoveList leaves the agent at the position and heading of the last
\* sample.
C22_Completion ==
  [][(movePc = "replay" /\ movePc' = "replay") =>
       /\ retCompleted'.called =>
            (retCompleted'.value <=> clock' > LastMove.timestamp)
       /\ clock > LastMove.timestamp =>
            /\ clock' > LastMove.timestamp
            /\ retCompleted'.called => retCompleted'.value
       /\ (adopted'.index > 0 /\ adopted'.at > LastMove.timestamp) =>
            /\ adopted'.index = Len(moveList)
            /\ p' = LastMove.pos
            /\ facingDirection' = LastMove.theta]_vars

\* completion reported after replays past the end of the list
C22_Witness ==
  /\ movePc = "replay"
  /\ retCompleted.called
  /\ retCompleted.value
  /\ clock > LastMove.timestamp + 1
  /\ adopted.at = clock
  /\ p = LastMove.pos
  /\ facingDirection = LastMove.theta

\* completion not yet reported at the timestamp of the last sample itself
NotCompletedAtLastTimestamp ==
  (movePc = "replay" /\ retCompleted.called
     /\ clock = LastMove.timestamp) => ~retCompleted.value

\* C24: the pose list produced for ReachedShelf and for BackUp is never
\* empty, whatever the start heading and the target angle, also when the
\* heading is within tolerance of the target from the start; a replay and
\* a completion test in these states always have a sample to use.
C24_ListNeverEmpty ==
  movePc = "replay" =>
    /\ Len(moveList) > 0
    /\ Len(moveList) >= (TargetDistance - DistanceTol) \div MoveStep
    /\ adopted.index \in 0..Len(moveList)
    /\ agentState \in {"ReachedShelf", "BackUp"}

\* a reached-shelf list built with the heading within tolerance from the
\* start: no rotation sample, and replayed
C24_Witness ==
  /\ movePc = "replay"
  /\ moveManeuver = "ReachedShelf"
  /\ ~NotReachedAngle(moveList[1].theta, angleTarget)
  /\ moveList[1].phase = "translation"
  /\ adopted.index > 0
  /\ retCompleted.called

\* index i is a position of the destination list
ValidPosition(i) == i \in 0..(Len(destinations) - 1)

IndicesInRange ==
  Len(destinations) > 0 =>
    /\ ValidPosition(destinationIndex)
    /\ ValidPosition(previousDestinationIndex)
    /\ ValidPosition(nextDestinationIndex)
    /\ currentDestination \in Range(destinations) \cup {NullWaypoint}

\* C23: after any sequence of addWaypoint, removeWaypoint, setWaypoints,
\* reset and updateDestination calls, whenever the destination list is not
\* empty the three indices are positions of the list and
\* currentDestination is an element of the list or unset.
C23_IndicesValid == IndicesInRange

\* C26: after reset() the agent is in state None at its initial position,
\* and in sequential mode the next updateDestination call selects
\* destination index 0, whatever number of updateDestination calls came
\* before the reset.
C26_ResetRestartsCycle ==
  [][/\ destOp' = "reset" =>
          /\ agentState' = "None"
          /\ p' = InitialPosition
          /\ destinationIndex' = 0
     /\ (destOp = "reset" /\ destOp' = "updateDestination"
           /\ waypointMode = "SEQUENTIAL" /\ Len(destinations) > 0) =>
          destinationIndex' = 0]_vars

\* what reset() does restore
ResetRestoresPositionAndIndex ==
  destOp = "reset" =>
    /\ agentState = "None"
    /\ p = InitialPosition
    /\ destinationIndex = 0

\* the disabled collection of a freshly constructed agent
FreshDisabled == <<"KeepDistance">>

\* C25: from any prior state of the disabled collection, resumeMovement
\* leaves exactly KeepDistance disabled, with a single entry, and Desired,
\* Social, Obstacle and every pluggable force enabled; stopMovement leaves
\* all four base forces disabled and velocity and acceleration zero; so
\* stopMovement followed by resumeMovement restores the force configuration
\* of a freshly constructed agent.
C25_StopResume ==
  [][/\ retForce'.op = "resumeMovement" =>
          /\ disabledForces' = <<"KeepDistance">>
          /\ \A name \in (ForceNames \cup Range(forces)) \ {"KeepDistance"} :
               ~contains(disabledForces', name)
          /\ disabledForces' = FreshDisabled
     /\ retForce'.op = "stopMovement" =>
          /\ \A name \in BaseForces : contains(disabledForces', name)
          /\ motion'.v = Zero
          /\ motion'.a = Zero]_vars

\* resumed after a stop, with pluggable forces attached
C25_Witness ==
  /\ retForce.op = "resumeMovement"
  /\ motion = Stopped
  /\ disabledForces = FreshDisabled
  /\ forces # <<>>
====
